---- MODULE Spec2Model ----
(***************************************************************************)
(* DocuMap: the mapping-memory engine (mapping-memory-store.ts) and the    *)
(* financial extraction pipeline (pdf-extractor.ts).                       *)
(*                                                                         *)
(* Strings are sequences of one-character strings, so that lower-casing,   *)
(* trimming, whitespace collapsing, substring tests and word splitting are *)
(* computed as the code computes them.  Match scores are the code's        *)
(* floating-point scores times 600, which keeps them integers for          *)
(* labels of up to six words.  The wall-clock fields lastUsed / updatedAt  *)
(* are written by the code and read by none of the modelled operations;    *)
(* they are left out of the records.                                       *)
(***************************************************************************)
EXTENDS Integers, Sequences, FiniteSets, TLC

VARIABLES
  firestoreDoc,   \* the tenant's document in the Firestore collection, or NoDoc
  fileDoc,        \* the tenant's <tenant>_mapping-memory.json, or NoDoc
  dbAvailable,    \* getFirestore() returns a handle (deployment configuration)
  hist,           \* observer: the last mapping-memory request and what it found
  applyFields,    \* request body of the last POST /mapping-memory/auto-apply
  matches,        \* "matches" of its response
  applyDone,      \* an auto-apply request has been answered
  pc,             \* where one call of extractFinancialFields stands
  apiKey,         \* a Gemini API key is configured (argument or environment)
  nativeText,     \* what pdf-parse finds in the buffer: optional text
  modelIdx,       \* the model of the multimodal priority list being tried
  rawText,        \* the local rawText of extractFinancialFields
  result,         \* the returned FinancialExtractionResult, optional
  tried,          \* observer: the strategies started, in order
  calls,          \* observer: the generateContent calls of the multimodal stage
  inputText,      \* the text handed to a function of pdf-extractor.ts, as its lines
  callOf,         \* the function that was called on it, "none" before the call
  output,         \* what the call returned, optional
  procPc,         \* where each concurrent learnMappings call stands
  procReq,        \* the mapping row each of them was called with
  procStore,      \* the store each of them has loaded and mutated in memory, optional
  pending,        \* the writes of its persistMappingMemory that are still to land
  lastWriter,     \* observer: the call whose write landed last, per backend (0: none)
  files,          \* the mapping-memory directory: file name -> optional store
  collection,     \* the Firestore collection mapping-memory: document id -> optional store
  lastTenant,     \* observer: the tenant of the request handled last, optional
  uploads,        \* getTenantUploads(tenantId): the upload records of the tenant
  jobs,           \* getTenantJobs(tenantId): the job records of the tenant
  now,            \* Date.now(), in milliseconds
  response,       \* the route and the status code of the last response of the upload routes
  processing,     \* the POST /upload/:id/process requests that await their extraction
  templates,      \* getTenantTemplates(tenantId): the templates of the tenant
  importResult,   \* observer: what the last request, if an import, imported and answered, optional
  dealers,        \* the records collection of the dealers: <<dealerCode, financialYear>> -> optional record
  saving,         \* the POST /dealers/save requests that await Firestore
  answers         \* observer: the save requests that ended, with their status codes, in order

memVars   == <<firestoreDoc, fileDoc, dbAvailable, hist>>
applyVars == <<applyFields, matches, applyDone>>
pipeVars  == <<pc, apiKey, nativeText, modelIdx, rawText, result, tried, calls>>
textVars  == <<inputText, callOf, output>>
raceVars  == <<procPc, procReq, procStore, pending, lastWriter>>
tenantVars == <<files, collection, lastTenant>>
uploadVars == <<uploads, jobs, now, response, processing>>
templateVars == <<templates, importResult>>
dealerVars == <<dealers, saving, answers>>
vars      == <<firestoreDoc, fileDoc, dbAvailable, hist, applyFields, matches, applyDone,
               pc, apiKey, nativeText, modelIdx, rawText, result, tried, calls,
               inputText, callOf, output,
               procPc, procReq, procStore, pending, lastWriter,
               files, collection, lastTenant,
               uploads, jobs, now, response, processing,
               templates, importResult,
               dealers, saving, answers>>

----------------------------------------------------------------------------
(* Bounds *)

MaxUsage == 3      \* learn / add-label are cut off above this usageCount
MaxFields == 2     \* extracted fields per auto-apply request

----------------------------------------------------------------------------
(* Strings *)

\* An optional value is a sequence of length 0 or 1.
NoDoc == <<>>
None  == <<>>

Max(a, b) == IF a >= b THEN a ELSE b

Capitals ==
  <<"A", "B", "C", "D", "E", "F", "G", "H", "I", "J", "K", "L", "M">> \o
  <<"N", "O", "P", "Q", "R", "S", "T", "U", "V", "W", "X", "Y", "Z">>
Smalls ==
  <<"a", "b", "c", "d", "e", "f", "g", "h", "i", "j", "k", "l", "m">> \o
  <<"n", "o", "p", "q", "r", "s", "t", "u", "v", "w", "x", "y", "z">>

LowerOf == [c \in {Capitals[i] : i \in 1..Len(Capitals)} |->
              Smalls[CHOOSE i \in 1..Len(Capitals) : Capitals[i] = c]]

Lower(c) == IF c \in DOMAIN LowerOf THEN LowerOf[c] ELSE c

IsSpace(c) == c \in {" ", "\t"}

toLowerCase(s) == [i \in 1..Len(s) |-> Lower(s[i])]

RECURSIVE trimStart(_)
trimStart(s) == IF s # <<>> /\ IsSpace(Head(s)) THEN trimStart(Tail(s)) ELSE s

RECURSIVE trimEnd(_)
trimEnd(s) ==
  IF s # <<>> /\ IsSpace(s[Len(s)]) THEN trimEnd(SubSeq(s, 1, Len(s) - 1)) ELSE s

trim(s) == trimEnd(trimStart(s))

\* s.replace(/\s+/g, " ")
RECURSIVE collapseWhitespace(_)
collapseWhitespace(s) ==
  IF s = <<>> THEN <<>>
  ELSE IF IsSpace(Head(s))
       THEN <<" ">> \o collapseWhitespace(trimStart(s))
       ELSE <<Head(s)>> \o collapseWhitespace(Tail(s))

includes(s, sub) ==
  \E i \in 0..(Len(s) - Len(sub)) : SubSeq(s, i + 1, i + Len(sub)) = sub

\* what learnMappings / addSourceLabel / removeSourceLabel store and look up
storedForm(label) == trim(toLowerCase(label))

normalize(s) == trim(collapseWhitespace(toLowerCase(s)))

IsSeparator(c) == IsSpace(c) \/ c \in {"-", "_", ":", ",", ".", "/"}

\* s.split(/[\s\-_:,./]+/).filter(Boolean), as the set the code builds from it
RECURSIVE splitWords(_, _)
splitWords(s, cur) ==
  IF s = <<>> THEN (IF cur = <<>> THEN {} ELSE {cur})
  ELSE IF IsSeparator(Head(s))
       THEN (IF cur = <<>> THEN {} ELSE {cur}) \cup splitWords(Tail(s), <<>>)
       ELSE splitWords(Tail(s), Append(cur, Head(s)))

words(s) == splitWords(normalize(s), <<>>)

----------------------------------------------------------------------------
(* Match scores *)

ScoreExact   == 600    \* 1.0
ScoreContain == 510    \* 0.85
ScoreMin     == 300    \* 0.5

\* overlap / max(|A|,|B|) as a pair <<numerator, denominator>>; <<0, 1>> is 0
wordSimilarity(a, b) ==
  LET wordsA == words(a)
      wordsB == words(b)
  IN IF wordsA = {} \/ wordsB = {} THEN <<0, 1>>
     ELSE <<Cardinality(wordsA \cap wordsB),
            Max(Cardinality(wordsA), Cardinality(wordsB))>>

RECURSIVE matchLoop(_, _, _, _)
matchLoop(normalizedField, sourceLabels, i, bestScore) ==
  IF i > Len(sourceLabels) THEN bestScore
  ELSE LET known == sourceLabels[i]
           sim   == wordSimilarity(normalizedField, known)
       IN IF normalizedField = known THEN ScoreExact
          ELSE IF includes(normalizedField, known) \/ includes(known, normalizedField)
               THEN matchLoop(normalizedField, sourceLabels, i + 1, Max(bestScore, ScoreContain))
               ELSE IF 5 * sim[1] >= 3 * sim[2]          \* sim >= 0.6
                    THEN matchLoop(normalizedField, sourceLabels, i + 1,
                                   Max(bestScore, ScoreMin + (180 * sim[1]) \div sim[2]))
                    ELSE matchLoop(normalizedField, sourceLabels, i + 1, bestScore)

\* a score that takes a containment for an exact match
M_matchScoreContainExact(fieldLabel, entry) ==
  IF matchLoop(normalize(fieldLabel), entry.sourceLabels, 1, 0) = ScoreContain
  THEN ScoreExact
  ELSE matchLoop(normalize(fieldLabel), entry.sourceLabels, 1, 0)

matchScore(fieldLabel, entry) == matchLoop(normalize(fieldLabel), entry.sourceLabels, 1, 0)

----------------------------------------------------------------------------
(* Auto-apply *)

\* the comparison with the confidence test reversed
M_betterThanWorse(score, usageCount, held) ==
  \/ held = None
  \/ score < held[1].confidence
  \/ (score = held[1].confidence /\ usageCount > held[1].usageCount)

\* the comparison without the tie-break on usageCount
M_betterThanNoTieBreak(score, usageCount, held) ==
  \/ held = None
  \/ score > held[1].confidence

betterThan(score, usageCount, held) ==
  \/ held = None
  \/ score > held[1].confidence
  \/ (score = held[1].confidence /\ usageCount > held[1].usageCount)

\* the loop over store.entries for one extracted field; bestMatch is optional
RECURSIVE bestMatchLoop(_, _, _, _)
bestMatchLoop(field, entries, i, bestMatch) ==
  IF i > Len(entries) THEN bestMatch
  ELSE LET entry == entries[i]
           score == matchScore(field.label, entry)
       IN IF score < ScoreMin THEN bestMatchLoop(field, entries, i + 1, bestMatch)
          ELSE IF betterThan(score, entry.usageCount, bestMatch)
               THEN bestMatchLoop(field, entries, i + 1,
                      << [sourceKey   |-> field.id,
                          sourceLabel |-> field.label,
                          sourceType  |-> IF \E k \in 1..Len(entry.sourceLabels) :
                                               entry.sourceLabels[k] = normalize(field.label)
                                          THEN entry.targetType ELSE "field",
                          targetKey   |-> entry.targetKey,
                          targetType  |-> entry.targetType,
                          confidence  |-> score,
                          usageCount  |-> entry.usageCount] >>)
               ELSE bestMatchLoop(field, entries, i + 1, bestMatch)

\* the candidates array: the best match of each field that has one, in field order
RECURSIVE candidatesOf(_, _, _)
candidatesOf(entries, extractedFields, i) ==
  IF i > Len(extractedFields) THEN <<>>
  ELSE bestMatchLoop(extractedFields[i], entries, 1, None)
         \o candidatesOf(entries, extractedFields, i + 1)

\* byTarget.set(c.targetKey, c) on a Map kept as the sequence of its values in
\* insertion order: an existing key keeps its place
mapSet(byTarget, c) ==
  IF \E k \in 1..Len(byTarget) : byTarget[k].targetKey = c.targetKey
  THEN [k \in 1..Len(byTarget) |->
          IF byTarget[k].targetKey = c.targetKey THEN c ELSE byTarget[k]]
  ELSE Append(byTarget, c)

mapGet(byTarget, targetKey) ==
  IF \E k \in 1..Len(byTarget) : byTarget[k].targetKey = targetKey
  THEN <<byTarget[CHOOSE k \in 1..Len(byTarget) : byTarget[k].targetKey = targetKey]>>
  ELSE None

\* the deduplication loop over the candidates
RECURSIVE dedupByTarget(_, _, _)
dedupByTarget(candidates, i, byTarget) ==
  IF i > Len(candidates) THEN byTarget
  ELSE LET c == candidates[i]
       IN dedupByTarget(candidates, i + 1,
            IF betterThan(c.confidence, c.usageCount, mapGet(byTarget, c.targetKey))
            THEN mapSet(byTarget, c) ELSE byTarget)

\* sort that leaves the matches in the Map's insertion order
M_sortByConfidenceNone(seq) == seq

\* Array.prototype.sort((a, b) => b.confidence - a.confidence): stable, descending
RECURSIVE sortByConfidence(_)
sortByConfidence(seq) ==
  IF seq = <<>> THEN <<>>
  ELSE LET sorted == sortByConfidence(SubSeq(seq, 1, Len(seq) - 1))
           x      == seq[Len(seq)]
           n      == Cardinality({k \in 1..Len(sorted) : sorted[k].confidence >= x.confidence})
       IN SubSeq(sorted, 1, n) \o <<x>> \o SubSeq(sorted, n + 1, Len(sorted))

stripUsage(c) ==
  [sourceKey |-> c.sourceKey, sourceLabel |-> c.sourceLabel, sourceType |-> c.sourceType,
   targetKey |-> c.targetKey, targetType |-> c.targetType, confidence |-> c.confidence]

\* deduplication that keeps every candidate
M_dedupedCandidatesAll(store, extractedFields) ==
  candidatesOf(store.entries, extractedFields, 1)

\* the result of the deduplication, before the sort
dedupedCandidates(store, extractedFields) ==
  dedupByTarget(candidatesOf(store.entries, extractedFields, 1), 1, <<>>)

autoApplyFromMemory(store, extractedFields) ==
  IF Len(store.entries) = 0 \/ Len(extractedFields) = 0 THEN <<>>
  ELSE LET sorted == sortByConfidence(dedupedCandidates(store, extractedFields))
       IN [k \in 1..Len(sorted) |-> stripUsage(sorted[k])]

----------------------------------------------------------------------------
(* Inputs *)

Tenant == "acme"

L_ab    == <<"a", " ", "b">>
L_Ab    == <<"A", " ", "b">>
L_a_b   == <<"a", " ", " ", "b">>
L_abc   == <<"a", " ", "b", " ", "c">>
L_bad   == <<"b", " ", "a", " ", "d">>
L_cd    == <<"c", " ", "d">>
L_blank == <<" ">>
Id_f1   == <<"f", "1">>

Targets == {"owners_capital", "pbit"}
Types   == {"field", "table"}

\* labels typed into add-label / remove-label
LabelPool == {L_ab, L_Ab, L_a_b, L_blank}

\* extractedFields of a learn request: {id, label, value}; value is never read.
\* In the second list the id of a field is the label of another document's field.
LearnFieldLists ==
  { <<[id |-> Id_f1, label |-> L_Ab]>>,
    <<[id |-> Id_f1, label |-> L_a_b], [id |-> L_ab, label |-> L_a_b]>> }

\* mapping rows of a learn request; sourceType is never read
MappingPool ==
  [sourceKey : LabelPool \cup {Id_f1, <<>>}, targetType : {"field"},
   targetKey : Targets \cup {""}]
  \cup {[sourceKey |-> L_ab, targetType |-> "table", targetKey |-> "owners_capital"]}

FirstPool ==
  { [sourceKey |-> L_ab,  targetType |-> "field", targetKey |-> "owners_capital"],
    [sourceKey |-> L_Ab,  targetType |-> "field", targetKey |-> "pbit"],
    [sourceKey |-> L_blank, targetType |-> "field", targetKey |-> "pbit"] }

SecondPool ==
  { [sourceKey |-> L_ab,  targetType |-> "field", targetKey |-> "owners_capital"],
    [sourceKey |-> L_a_b, targetType |-> "field", targetKey |-> "pbit"] }

MappingLists ==
  { <<m>> : m \in MappingPool } \cup { <<m, n>> : m \in FirstPool, n \in SecondPool }

----------------------------------------------------------------------------
(* Mapping-memory store *)

emptyStore == [tenantId |-> Tenant, entries |-> <<>>]

\* loadFromFile: a missing or unreadable file is an empty store
loadFromFile == IF fileDoc = NoDoc THEN emptyStore ELSE fileDoc[1]

\* loadFromFirestore: null without a handle or without a document
loadFromFirestore == IF dbAvailable THEN firestoreDoc ELSE NoDoc

loadMappingMemory ==
  IF loadFromFirestore # NoDoc THEN loadFromFirestore[1] ELSE loadFromFile

\* persistMappingMemory: saveToFirestore (when there is a handle) and saveToFile
persistMappingMemory(store) ==
  /\ firestoreDoc' = IF dbAvailable THEN <<store>> ELSE firestoreDoc
  /\ fileDoc' = <<store>>

\* entries.find(e => e.targetKey === targetKey): index of the first, 0 if none
findEntry(entries, targetKey) ==
  IF \E i \in 1..Len(entries) : entries[i].targetKey = targetKey
  THEN CHOOSE i \in 1..Len(entries) :
         /\ entries[i].targetKey = targetKey
         /\ \A j \in 1..(i - 1) : entries[j].targetKey # targetKey
  ELSE 0

seqIncludes(seq, x) == \E i \in 1..Len(seq) : seq[i] = x

\* idToLabel.get(key) after the loop that sets f.id and then f.label for each field
RECURSIVE idToLabelGet(_, _, _)
idToLabelGet(extractedFields, key, i) ==
  IF i = 0 THEN None
  ELSE IF extractedFields[i].label = key \/ extractedFields[i].id = key
       THEN <<extractedFields[i].label>>
       ELSE idToLabelGet(extractedFields, key, i - 1)

\* idToLabel.get(m.sourceKey) || m.sourceKey
resolveLabel(extractedFields, sourceKey) ==
  LET got == idToLabelGet(extractedFields, sourceKey, Len(extractedFields))
  IN IF got = None \/ got[1] = <<>> THEN sourceKey ELSE got[1]

\* touchEntry that never finds the existing entry and always pushes a new one
M_touchEntryAlwaysPush(entries, targetKey, targetType, normalizedLabel, setType) ==
  Append(entries, [targetKey |-> targetKey, targetType |-> targetType,
                   sourceLabels |-> <<normalizedLabel>>, usageCount |-> 1])

\* touchEntry that counts a use only when the variant is new
M_touchEntryCountNew(entries, targetKey, targetType, normalizedLabel, setType) ==
  LET i == findEntry(entries, targetKey)
  IN IF i # 0
     THEN IF seqIncludes(entries[i].sourceLabels, normalizedLabel)
          THEN entries
          ELSE [entries EXCEPT ![i].sourceLabels = Append(@, normalizedLabel),
                               ![i].usageCount = @ + 1]
     ELSE Append(entries, [targetKey |-> targetKey, targetType |-> targetType,
                           sourceLabels |-> <<normalizedLabel>>, usageCount |-> 1])

\* the find-or-create step shared by learnMappings and addSourceLabel
touchEntry(entries, targetKey, targetType, normalizedLabel, setType) ==
  LET i == findEntry(entries, targetKey)
  IN IF i # 0
     THEN [entries EXCEPT
             ![i].sourceLabels =
                 IF seqIncludes(@, normalizedLabel) THEN @ ELSE Append(@, normalizedLabel),
             ![i].usageCount = @ + 1,
             ![i].targetType = IF setType THEN targetType ELSE @]
     ELSE Append(entries, [targetKey |-> targetKey, targetType |-> targetType,
                           sourceLabels |-> <<normalizedLabel>>, usageCount |-> 1])

\* one iteration of learnMappings' loop over the mapping rows
learnOne(entries, m, extractedFields) ==
  IF m.sourceKey = <<>> \/ m.targetKey = "" THEN entries
  ELSE LET normalizedLabel == storedForm(resolveLabel(extractedFields, m.sourceKey))
       IN IF normalizedLabel = <<>> THEN entries
          ELSE touchEntry(entries, m.targetKey, m.targetType, normalizedLabel, TRUE)

RECURSIVE learnLoop(_, _, _, _)
learnLoop(entries, mappings, extractedFields, i) ==
  IF i > Len(mappings) THEN entries
  ELSE learnLoop(learnOne(entries, mappings[i], extractedFields), mappings, extractedFields, i + 1)

learnMappings(store, mappings, extractedFields) ==
  [store EXCEPT !.entries = learnLoop(@, mappings, extractedFields, 1)]

addSourceLabel(store, targetKey, targetType, sourceLabel) ==
  [store EXCEPT !.entries = touchEntry(@, targetKey, targetType, storedForm(sourceLabel), FALSE)]

filterSeq(seq, Keep(_)) ==
  LET F[i \in 0..Len(seq)] ==
        IF i = 0 THEN <<>>
        ELSE IF Keep(seq[i]) THEN Append(F[i - 1], seq[i]) ELSE F[i - 1]
  IN F[Len(seq)]

\* removeSourceLabel that keeps an entry whose last variant was removed
M_removeSourceLabelKeepEmpty(store, targetKey, sourceLabel) ==
  LET normalizedLabel == storedForm(sourceLabel)
      i == findEntry(store.entries, targetKey)
      NotLabel(l) == l # normalizedLabel
  IN IF i = 0 THEN store
     ELSE [store EXCEPT !.entries[i].sourceLabels = filterSeq(@, NotLabel)]

removeSourceLabel(store, targetKey, sourceLabel) ==
  LET normalizedLabel == storedForm(sourceLabel)
      i == findEntry(store.entries, targetKey)
      NotLabel(l) == l # normalizedLabel
      NotTarget(e) == e.targetKey # targetKey
  IN IF i = 0 THEN store
     ELSE LET filtered == [store.entries EXCEPT ![i].sourceLabels = filterSeq(@, NotLabel)]
          IN [store EXCEPT !.entries =
                IF Len(filtered[i].sourceLabels) = 0
                THEN filterSeq(filtered, NotTarget) ELSE filtered]

removeTargetEntry(store, targetKey) ==
  LET NotTarget(e) == e.targetKey # targetKey
  IN [store EXCEPT !.entries = filterSeq(@, NotTarget)]

WithinBounds(store) ==
  \A i \in 1..Len(store.entries) :
    store.entries[i].usageCount <= MaxUsage

\* what the observer records of a target's entry
entryView(store, targetKey) ==
  LET i == findEntry(store.entries, targetKey)
  IN IF i = 0 THEN [usageCount |-> 0, sourceLabels |-> <<>>]
     ELSE [usageCount |-> store.entries[i].usageCount,
           sourceLabels |-> store.entries[i].sourceLabels]

\* the observer: the last learn or remove-label request, the view of its target's
\* entry before it, and, when it repeats the request handled just before it (a
\* learn call of one row with the same label and target), the view before that one
observe(op, label, targetKey, store, again) ==
  << [op |-> op, label |-> label, targetKey |-> targetKey,
      before1 |-> entryView(store, targetKey),
      before2 |-> IF again THEN <<hist[1].before1>> ELSE None] >>

histAfterLearn(store, mappings, extractedFields) ==
  IF Len(mappings) = 1 /\ mappings[1].sourceKey # <<>> /\ mappings[1].targetKey # ""
  THEN LET label  == resolveLabel(extractedFields, mappings[1].sourceKey)
           target == mappings[1].targetKey
       IN observe("learn", label, target, store,
                  /\ hist # None
                  /\ hist[1].op = "learn"
                  /\ hist[1].label = label
                  /\ hist[1].targetKey = target)
  ELSE None

----------------------------------------------------------------------------
(* Handlers of /mapping-memory *)

Learn ==
  \E mappings \in MappingLists, extractedFields \in LearnFieldLists :
    \E loaded \in {loadMappingMemory} :
      \E store \in {learnMappings(loaded, mappings, extractedFields)} :
        /\ WithinBounds(store)
        /\ persistMappingMemory(store)
        /\ hist' = histAfterLearn(loaded, mappings, extractedFields)
        /\ UNCHANGED <<dbAvailable, applyVars, pipeVars, textVars, raceVars, tenantVars, uploadVars, templateVars, dealerVars>>

AddLabel ==
  \E targetKey \in Targets, targetType \in Types, sourceLabel \in LabelPool :
    \E store \in {addSourceLabel(loadMappingMemory, targetKey, targetType, sourceLabel)} :
      /\ WithinBounds(store)
      /\ IF storedForm(sourceLabel) = <<>>
         THEN UNCHANGED <<firestoreDoc, fileDoc>>
         ELSE persistMappingMemory(store)
      /\ hist' = None
      /\ UNCHANGED <<dbAvailable, applyVars, pipeVars, textVars, raceVars, tenantVars, uploadVars, templateVars, dealerVars>>

RemoveLabel ==
  \E targetKey \in Targets, sourceLabel \in LabelPool :
    \E store \in {removeSourceLabel(loadMappingMemory, targetKey, sourceLabel)} :
      /\ persistMappingMemory(store)
      /\ hist' = observe("remove-label", storedForm(sourceLabel), targetKey, loadMappingMemory, FALSE)
      /\ UNCHANGED <<dbAvailable, applyVars, pipeVars, textVars, raceVars, tenantVars, uploadVars, templateVars, dealerVars>>

RemoveTarget ==
  \E targetKey \in Targets :
    \E store \in {removeTargetEntry(loadMappingMemory, targetKey)} :
      /\ persistMappingMemory(store)
      /\ hist' = None
      /\ UNCHANGED <<dbAvailable, applyVars, pipeVars, textVars, raceVars, tenantVars, uploadVars, templateVars, dealerVars>>

\* no document, no request handled yet; nothing else is running
Init ==
  /\ firestoreDoc = NoDoc
  /\ fileDoc = NoDoc
  /\ dbAvailable \in BOOLEAN
  /\ hist = None
  /\ applyFields = <<>>
  /\ matches = <<>>
  /\ applyDone = FALSE
  /\ pc = "idle"
  /\ apiKey = FALSE
  /\ nativeText = None
  /\ modelIdx = 1
  /\ rawText = <<>>
  /\ result = None
  /\ tried = <<>>
  /\ calls = <<>>
  /\ dealers = <<>>
  /\ saving = <<>>
  /\ answers = <<>>
  /\ templates = <<>>
  /\ importResult = <<>>
  /\ uploads = <<>>
  /\ jobs = <<>>
  /\ now = 0
  /\ response = [route |-> "none", status |-> 0]
  /\ processing = <<>>
  /\ files = <<>>
  /\ collection = <<>>
  /\ lastTenant = <<>>
  /\ procPc = <<>>
  /\ procReq = <<>>
  /\ procStore = <<>>
  /\ pending = <<>>
  /\ lastWriter = <<>>
  /\ inputText = <<>>
  /\ callOf = "none"
  /\ output = None

Next == Learn \/ AddLabel \/ RemoveLabel \/ RemoveTarget

Spec == Init /\ [][Next]_vars

----------------------------------------------------------------------------
(* POST /mapping-memory/auto-apply over the stores that learning leaves *)

\* variant lists as learn / add-label store them (lower case, trimmed)
ApplyLabelSeqs ==
  { <<L_ab>>, <<L_abc>>, <<L_bad>>, <<L_a_b>>, <<L_ab, L_bad>>, <<L_abc, L_ab>> }

ApplyEntries(targetKey) ==
  { e \in [targetKey : {targetKey}, targetType : Types,
           sourceLabels : ApplyLabelSeqs, usageCount : {1, 2}] :
      Len(e.sourceLabels) <= e.usageCount }

\* "table" entries are drawn for the stores of one entry only
ApplyStores ==
  {<<>>}
  \cup { <<e>> : e \in ApplyEntries("owners_capital") }
  \cup UNION { {<<e1, e2>>, <<e2, e1>>} :
                e1 \in {e \in ApplyEntries("owners_capital") : e.targetType = "field"},
                e2 \in {e \in ApplyEntries("pbit") : e.targetType = "field"} }

ApplyLabels == {L_ab, L_Ab, L_abc, L_bad, L_cd, L_blank}

fieldId(i) == <<"f", CASE i = 1 -> "1" [] i = 2 -> "2" [] i = 3 -> "3" [] OTHER -> "4">>

\* extractedFields of an auto-apply request: ids are unique within a document
ApplyFieldLists ==
  UNION { { [i \in 1..n |-> [id |-> fieldId(i), label |-> ls[i]]] :
              ls \in [1..n -> ApplyLabels] } : n \in 1..MaxFields }

AutoApply ==
  /\ ~applyDone
  /\ \E extractedFields \in ApplyFieldLists :
       /\ applyFields' = extractedFields
       /\ matches' = autoApplyFromMemory(loadMappingMemory, extractedFields)
  /\ applyDone' = TRUE
  /\ UNCHANGED <<memVars, pipeVars, textVars, raceVars, tenantVars, uploadVars, templateVars, dealerVars>>

InitApply ==
  /\ dbAvailable \in BOOLEAN
  /\ \E entries \in ApplyStores :
       /\ fileDoc = <<[tenantId |-> Tenant, entries |-> entries]>>
       /\ firestoreDoc = IF dbAvailable THEN fileDoc ELSE NoDoc
  /\ hist = None
  /\ applyFields = <<>>
  /\ matches = <<>>
  /\ applyDone = FALSE
  /\ pc = "idle"
  /\ apiKey = FALSE
  /\ nativeText = None
  /\ modelIdx = 1
  /\ rawText = <<>>
  /\ result = None
  /\ tried = <<>>
  /\ calls = <<>>
  /\ dealers = <<>>
  /\ saving = <<>>
  /\ answers = <<>>
  /\ templates = <<>>
  /\ importResult = <<>>
  /\ uploads = <<>>
  /\ jobs = <<>>
  /\ now = 0
  /\ response = [route |-> "none", status |-> 0]
  /\ processing = <<>>
  /\ files = <<>>
  /\ collection = <<>>
  /\ lastTenant = <<>>
  /\ procPc = <<>>
  /\ procReq = <<>>
  /\ procStore = <<>>
  /\ pending = <<>>
  /\ lastWriter = <<>>
  /\ inputText = <<>>
  /\ callOf = "none"
  /\ output = None

ApplySpec == InitApply /\ [][AutoApply]_vars

----------------------------------------------------------------------------
(* Properties of auto-apply *)

\* the score of a requested field against the store's entry for a target, 0 if none
scoreAgainst(field, targetKey) ==
  LET i == findEntry(loadMappingMemory.entries, targetKey)
  IN IF i = 0 THEN 0 ELSE matchScore(field.label, loadMappingMemory.entries[i])

proposalsFor(targetKey) == {k \in 1..Len(matches) : matches[k].targetKey = targetKey}

\* C5: the list returned by autoApplyFromMemory holds at most one match per targetKey.
C5_OneMatchPerTarget ==
  applyDone => \A t \in Targets : Cardinality(proposalsFor(t)) <= 1

\* two fields had the same target as their best entry, and one proposal came back
C5_Witness ==
  /\ applyDone
  /\ Len(applyFields) = 2
  /\ Len(candidatesOf(loadMappingMemory.entries, applyFields, 1)) = 2
  /\ Len(matches) = 1

\* the fields of the request that score >= 0.5 against a target's entry
scorers(targetKey) ==
  {i \in 1..Len(applyFields) : scoreAgainst(applyFields[i], targetKey) >= ScoreMin}

\* C6 as stated: whenever two extracted fields both score >= 0.5 against the same
\* target entry, exactly one proposal for that target is returned and its source
\* is the field with the higher confidence against that target.
C6_ExclusiveBestScorer ==
  applyDone =>
    \A t \in Targets :
      Cardinality(scorers(t)) >= 2 =>
        /\ Cardinality(proposalsFor(t)) = 1
        /\ \A k \in proposalsFor(t) : \A i \in scorers(t) :
             scoreAgainst(applyFields[i], t) <= matches[k].confidence

\* the request's fields whose best-scoring entry is the target's
choosers(targetKey) ==
  {i \in 1..Len(applyFields) :
     LET best == bestMatchLoop(applyFields[i], loadMappingMemory.entries, 1, None)
     IN best # None /\ best[1].targetKey = targetKey}

\* C6 as amended: whenever two extracted fields both have the same target entry as
\* their best-scoring entry, exactly one proposal for that target is returned; its
\* source is the one of them with the highest confidence and, among equals, the
\* first in the request.
C6_ExclusiveBestChooser ==
  applyDone =>
    \A t \in Targets :
      \A ch \in {choosers(t)} :
        Cardinality(ch) >= 2 =>
          \A score \in {[i \in ch |-> scoreAgainst(applyFields[i], t)]} :
            /\ Cardinality(proposalsFor(t)) = 1
            /\ \A k \in proposalsFor(t) :
                 \E w \in ch :
                   /\ matches[k].sourceKey = applyFields[w].id
                   /\ matches[k].confidence = score[w]
                   /\ \A i \in ch :
                        \/ score[i] < score[w]
                        \/ (score[i] = score[w] /\ w <= i)

\* two fields chose the same target with different scores; the later, better one won
C6_Witness ==
  /\ applyDone
  /\ \E t \in Targets :
       /\ choosers(t) = {1, 2}
       /\ scoreAgainst(applyFields[1], t) < scoreAgainst(applyFields[2], t)
       /\ Len(matches) = 1
       /\ matches[1].sourceKey = applyFields[2].id

\* C7: the returned list is sorted by descending confidence.
C7_SortedDescending ==
  applyDone =>
    \A k \in 1..(Len(matches) - 1) : matches[k].confidence >= matches[k + 1].confidence

\* the sort moved a later, better match in front of an earlier one
C7_Witness ==
  /\ applyDone
  /\ Len(matches) = 2
  /\ matches[1].confidence > matches[2].confidence
  /\ matches[1].sourceKey = fieldId(2)

----------------------------------------------------------------------------
(* Properties of the mapping-memory store *)

\* every store a load can return
Persisted == {d[1] : d \in {firestoreDoc, fileDoc} \ {NoDoc}}

NoDuplicates(seq) == \A i, j \in 1..Len(seq) : i # j => seq[i] # seq[j]

\* C1: after any sequence of learn, add-label, remove-label and remove-target,
\* no two entries of the tenant's store have the same targetKey.
C1_OneEntryPerTarget ==
  \A store \in Persisted :
    \A i, j \in 1..Len(store.entries) :
      i # j => store.entries[i].targetKey # store.entries[j].targetKey

\* a target was touched again after its entry was created, next to another entry
C1_Witness ==
  \E store \in Persisted :
    /\ Len(store.entries) = 2
    /\ \E i \in 1..2 : store.entries[i].usageCount >= 2

\* the last request was a remove-label of the only variant of its target's entry
RemovedLastLabel ==
  /\ hist # None
  /\ hist[1].op = "remove-label"
  /\ hist[1].before1.sourceLabels = <<hist[1].label>>

LearnedTwice ==
  /\ hist # None
  /\ hist[1].op = "learn"
  /\ hist[1].before2 # None

TwoMoreUses ==
  LET before == hist[1].before2[1]
      after  == entryView(loadMappingMemory, hist[1].targetKey)
  IN /\ after.usageCount = before.usageCount + 2
     /\ Len(after.sourceLabels) - Len(before.sourceLabels) \in {0, 1}
     /\ NoDuplicates(after.sourceLabels)

C4_NormalizedDedup ==
  \A store \in Persisted :
    \A e \in 1..Len(store.entries) :
      LET labels == store.entries[e].sourceLabels
      IN \A i, j \in 1..Len(labels) :
           i # j => normalize(labels[i]) # normalize(labels[j])

----------------------------------------------------------------------------
(* extractFinancialFields *)

OUTPUT_FIELDS ==
  << "owners_capital", "total_liabilities", "pbit", "interest", "accounts_payable",
     "accounts_receivable", "dealer_turnover", "purchases", "current_assets",
     "current_liabilities" >>

Models == << "gemini-2.0-flash", "gemini-1.5-flash", "gemini-1.5-pro" >>

\* A text is a sequence of lines.  A line is its length, the canonical keys one
\* of whose SYNONYM_MAP aliases occurs in it in lower case, and the amount the
\* number pattern finds in it, if any.
line(chars, hits, amount) == [chars |-> chars, hits |-> hits, amount |-> amount]

\* "<alias of the i-th key>: <amount>"; an alias of pbit such as "profit before
\* interest and tax" contains the alias "interest" too
aliasLine(i) ==
  line(29, IF OUTPUT_FIELDS[i] = "pbit" THEN {"pbit", "interest"} ELSE {OUTPUT_FIELDS[i]},
       <<1000 * i>>)

headingLine == line(13, {}, None)

statement(n) == <<headingLine>> \o [i \in 1..n |-> aliasLine(i)]

\* a stamp "<alias of the 5th key>: <amount>" printed on three pages
stampText == [i \in 1..3 |-> aliasLine(5)]

Texts == {<<>>, <<headingLine>>, <<aliasLine(5)>>, stampText}
         \cup {statement(n) : n \in {1, 4, 5, 7, 8, 10}}

\* text.length of the lines joined by newlines
RECURSIVE textLength(_)
textLength(text) ==
  IF text = <<>> THEN 0
  ELSE Head(text).chars + (IF Len(text) > 1 THEN 1 ELSE 0) + textLength(Tail(text))

\* the lineEntries of synonymMatch: the lines in which a number was found
lineEntries(text) ==
  LET HasAmount(l) == l.amount # None
  IN filterSeq(text, HasAmount)

\* the first line entry that contains an alias of the key, 0 if none
firstHit(entries, key) ==
  IF \E i \in 1..Len(entries) : key \in entries[i].hits
  THEN CHOOSE i \in 1..Len(entries) :
         /\ key \in entries[i].hits
         /\ \A j \in 1..(i - 1) : key \notin entries[j].hits
  ELSE 0

synonymMatch(text) ==
  LET entries == lineEntries(text)
      found   == {i \in 1..Len(OUTPUT_FIELDS) : firstHit(entries, OUTPUT_FIELDS[i]) # 0}
  IN [key \in {OUTPUT_FIELDS[i] : i \in found} |->
        entries[firstHit(entries, key)].amount[1]]

\* OUTPUT_FIELDS.filter(f => mapped[f.key] != null).length
mappedCount(mapped) ==
  Cardinality({i \in 1..Len(OUTPUT_FIELDS) : OUTPUT_FIELDS[i] \in DOMAIN mapped})

\* the band of both Gemini paths
aiConfidence(count) ==
  IF count >= 8 THEN "high" ELSE IF count >= 5 THEN "medium" ELSE "low"

\* the band of the synonym fallback
synonymConfidence(count) == IF count >= 8 THEN "medium" ELSE "low"

\* What one generateContent call can bring: a JSON object whose "mapped" holds
\* the first n canonical keys, an empty text, a text that does not parse into
\* the expected object, or an error with its HTTP status (0: none, a transport
\* error).
firstKeys(n) == [key \in {OUTPUT_FIELDS[i] : i \in 1..n} |-> 1]

AiOutcomes ==
  {[kind |-> "json", mapped |-> firstKeys(n), status |-> 200] : n \in {0, 4, 5, 7, 8, 10}}
  \cup {[kind |-> k, mapped |-> firstKeys(0), status |-> 200] : k \in {"empty", "malformed"}}
  \cup {[kind |-> "error", mapped |-> firstKeys(0), status |-> st] : st \in {400, 404, 429, 500, 0}}

\* extractTextWithOcr: the toolchain is missing, pdftoppm or tesseract fails, or
\* the pages are recognised
OcrOutcomes ==
  {[kind |-> k, text |-> <<>>] : k \in {"missing", "failed"}}
  \cup {[kind |-> "text", text |-> t] : t \in Texts}

extractTextWithOcr(outcome) == IF outcome.kind = "text" THEN outcome.text ELSE <<>>

aiResult(mapped, strategy, modelName) ==
  [fields |-> mapped, unmappedFields |-> <<>>,
   confidence |-> aiConfidence(mappedCount(mapped)),
   note |-> [strategy |-> strategy, model |-> modelName, count |-> mappedCount(mapped)]]

synonymResult(text) ==
  LET fields == synonymMatch(text)
      count  == Cardinality(DOMAIN fields)
  IN [fields |-> fields, unmappedFields |-> <<>>,
      confidence |-> synonymConfidence(count),
      note |-> [strategy |-> "synonym", model |-> "", count |-> count]]

noTextResult ==
  [fields |-> <<>>, unmappedFields |-> <<>>, confidence |-> "low",
   note |-> [strategy |-> "none", model |-> "", count |-> 0]]

\* a loop that goes on to the next model after every error
M_multimodalCallAlwaysNext(outcome, modelName) ==
  CASE outcome.kind = "json" ->
         [kind |-> "return", result |-> <<aiResult(outcome.mapped, "multimodal", modelName)>>]
    [] OTHER -> [kind |-> "continue", result |-> None]

\* one iteration of extractWithGeminiMultimodal's loop over the models: it
\* returns a result, goes on to the next model, or throws
multimodalCall(outcome, modelName) ==
  CASE outcome.kind = "json" ->
         [kind |-> "return", result |-> <<aiResult(outcome.mapped, "multimodal", modelName)>>]
    [] outcome.kind = "empty" -> [kind |-> "continue", result |-> None]
    [] outcome.kind = "malformed" -> [kind |-> "throw", result |-> None]
    [] OTHER ->
         IF outcome.status \in {400, 404}
         THEN [kind |-> "continue", result |-> None]
         ELSE [kind |-> "throw", result |-> None]

\* where extractFinancialFields stands after one call of the multimodal stage:
\* a result is returned, the loop goes on, and an exhausted list (null) or an
\* exception (caught and logged) falls through to the text extraction
afterMultimodal(step, idx) ==
  CASE step.kind = "return" -> [pc |-> "returned", modelIdx |-> idx, result |-> step.result]
    [] step.kind = "continue" /\ idx < Len(Models) ->
         [pc |-> "multimodal", modelIdx |-> idx + 1, result |-> None]
    [] OTHER -> [pc |-> "parse", modelIdx |-> idx, result |-> None]

\* a text stage that goes to the Synonym Matcher without calling Gemini
M_afterTextSkipGemini(text) ==
  IF text = <<>> \/ textLength(text) < 20
  THEN [pc |-> "returned", result |-> <<noTextResult>>, tried |-> <<>>]
  ELSE [pc |-> "returned", result |-> <<synonymResult(text)>>, tried |-> <<"synonym">>]

\* a text stage that calls Gemini whether or not a key is configured
M_afterTextAlwaysGemini(text) ==
  IF text = <<>> \/ textLength(text) < 20
  THEN [pc |-> "returned", result |-> <<noTextResult>>, tried |-> <<>>]
  ELSE [pc |-> "gemini_text", result |-> None, tried |-> <<"gemini-text">>]

\* from the check on the text's length to the next external call or to the return
afterText(text) ==
  IF text = <<>> \/ textLength(text) < 20
  THEN [pc |-> "returned", result |-> <<noTextResult>>, tried |-> <<>>]
  ELSE IF apiKey
       THEN [pc |-> "gemini_text", result |-> None, tried |-> <<"gemini-text">>]
       ELSE [pc |-> "returned", result |-> <<synonymResult(text)>>, tried |-> <<"synonym">>]

Start ==
  /\ pc = "called"
  /\ pc' = IF apiKey THEN "multimodal" ELSE "parse"
  /\ tried' = IF apiKey THEN <<"multimodal">> ELSE <<>>
  /\ UNCHANGED <<apiKey, nativeText, modelIdx, rawText, result, calls, memVars, applyVars, textVars, raceVars, tenantVars, uploadVars, templateVars, dealerVars>>

Multimodal ==
  /\ pc = "multimodal"
  /\ \E outcome \in AiOutcomes :
       LET after == afterMultimodal(multimodalCall(outcome, Models[modelIdx]), modelIdx)
       IN /\ pc' = after.pc
          /\ modelIdx' = after.modelIdx
          /\ result' = after.result
          /\ calls' = Append(calls, [model |-> Models[modelIdx], outcome |-> outcome])
  /\ UNCHANGED <<apiKey, nativeText, rawText, tried, memVars, applyVars, textVars, raceVars, tenantVars, uploadVars, templateVars, dealerVars>>

\* pdf(buffer), then the branch on the text's length
Parse ==
  /\ pc = "parse"
  /\ LET text == IF nativeText = None THEN <<>> ELSE nativeText[1]
     IN /\ rawText' = text
        /\ IF text = <<>> \/ textLength(text) < 50
           THEN /\ pc' = "ocr"
                /\ result' = result
                /\ tried' = tried \o <<"pdf-parse", "ocr">>
           ELSE /\ pc' = afterText(text).pc
                /\ result' = afterText(text).result
                /\ tried' = tried \o <<"pdf-parse">> \o afterText(text).tried
  /\ UNCHANGED <<apiKey, nativeText, modelIdx, calls, memVars, applyVars, textVars, raceVars, tenantVars, uploadVars, templateVars, dealerVars>>

\* the scratch directory of the OCR fallback: fs.mkdtemp is awaited before the
\* try and fs.rm inside its finally, so a rejection of either leaves
\* extractFinancialFields as a rejection
ScratchOutcomes == {"ok", "mkdtemp_rejects", "rm_rejects"}

Ocr ==
  /\ pc = "ocr"
  /\ \E scratch \in ScratchOutcomes, outcome \in OcrOutcomes :
       IF scratch # "ok"
       THEN /\ pc' = "raised"
            /\ UNCHANGED <<rawText, result, tried>>
       ELSE LET text == extractTextWithOcr(outcome)
            IN /\ rawText' = text
               /\ pc' = afterText(text).pc
               /\ result' = afterText(text).result
               /\ tried' = tried \o afterText(text).tried
  /\ UNCHANGED <<apiKey, nativeText, modelIdx, calls, memVars, applyVars, textVars, raceVars, tenantVars, uploadVars, templateVars, dealerVars>>

\* the Gemini call on the extracted text; every failure falls back to synonymMatch
GeminiText ==
  /\ pc = "gemini_text"
  /\ \E outcome \in AiOutcomes :
       IF outcome.kind = "json"
       THEN /\ result' = <<aiResult(outcome.mapped, "text", Models[1])>>
            /\ tried' = tried
       ELSE /\ result' = <<synonymResult(rawText)>>
            /\ tried' = Append(tried, "synonym")
  /\ pc' = "returned"
  /\ UNCHANGED <<apiKey, nativeText, modelIdx, rawText, calls, memVars, applyVars, textVars, raceVars, tenantVars, uploadVars, templateVars, dealerVars>>

InitPipe ==
  /\ pc = "called"
  /\ apiKey \in BOOLEAN
  /\ nativeText \in {None} \cup {<<t>> : t \in Texts}
  /\ modelIdx = 1
  /\ rawText = <<>>
  /\ result = None
  /\ tried = <<>>
  /\ calls = <<>>
  /\ dealers = <<>>
  /\ saving = <<>>
  /\ answers = <<>>
  /\ templates = <<>>
  /\ importResult = <<>>
  /\ uploads = <<>>
  /\ jobs = <<>>
  /\ now = 0
  /\ response = [route |-> "none", status |-> 0]
  /\ processing = <<>>
  /\ files = <<>>
  /\ collection = <<>>
  /\ lastTenant = <<>>
  /\ procPc = <<>>
  /\ procReq = <<>>
  /\ procStore = <<>>
  /\ pending = <<>>
  /\ lastWriter = <<>>
  /\ inputText = <<>>
  /\ callOf = "none"
  /\ output = None
  /\ firestoreDoc = NoDoc
  /\ fileDoc = NoDoc
  /\ dbAvailable = FALSE
  /\ hist = None
  /\ applyFields = <<>>
  /\ matches = <<>>
  /\ applyDone = FALSE

PipeNext == Start \/ Multimodal \/ Parse \/ Ocr \/ GeminiText

ExtractSpec == InitPipe /\ [][PipeNext]_vars

----------------------------------------------------------------------------
(* Properties of extractFinancialFields *)

\* the canonical keys the returned fields populate
populated == Cardinality(DOMAIN result[1].fields \cap {OUTPUT_FIELDS[i] : i \in 1..Len(OUTPUT_FIELDS)})

\* C9: every returned result, whichever strategy produced it, has confidence
\* "high" with at least 8 of the ten canonical keys populated, "medium" with 5
\* to 7, and "low" otherwise.
C9_ConfidenceBanding ==
  pc = "returned" =>
    result[1].confidence =
      (IF populated >= 8 THEN "high" ELSE IF populated >= 5 THEN "medium" ELSE "low")

\* C10: extractFinancialFields never raises and, whatever fails on the way (no
\* OCR toolchain, an AI transport or quota error, an AI rejection, an empty or
\* malformed AI response), goes on to the next strategy until it returns a
\* result object.
C10_AlwaysReturnsResult ==
  /\ pc # "raised"
  /\ pc = "returned" =>
       /\ result # None
       /\ result[1].confidence \in {"high", "medium", "low"}
  /\ pc # "returned" => ENABLED PipeNext

\* the failures of the AI calls, of pdf-parse and of the OCR toolchain never
\* raise: extractFinancialFields raises only when a call on the scratch
\* directory rejects, which happens in the OCR fallback alone
RaisesOnlyInOcrFallback ==
  pc = "raised" => /\ result = None
                   /\ Len(tried) >= 2
                   /\ tried[Len(tried)] = "ocr"

----------------------------------------------------------------------------
(* The order of the strategies of extractFinancialFields *)

\* the place of a started step in the order the specification gives: AI
\* multimodal, OCR + text parsing, Synonym Matcher, raw-line placeholders; 0 for
\* a step the order does not name
strategyRank(step) ==
  CASE step = "multimodal" -> 1
    [] step \in {"pdf-parse", "ocr"} -> 2
    [] step = "synonym" -> 3
    [] step = "raw-lines" -> 4
    [] OTHER -> 0

\* C11: the strategies of one document start one at a time in the order AI
\* multimodal (only when configured), OCR + text parsing, Synonym Matcher,
\* raw-line placeholders; none starts before the earlier ones gave nothing, and
\* the pipeline stops at the first one that yields a result.
C11_FixedStrategyOrder ==
  /\ \A i \in 1..Len(tried) : strategyRank(tried[i]) # 0
  /\ \A i, j \in 1..Len(tried) : i < j => strategyRank(tried[i]) <= strategyRank(tried[j])
  /\ (\E i \in 1..Len(tried) : tried[i] = "multimodal") => apiKey
  /\ result # None => pc = "returned"

\* the place of a started step in the order of the code, which calls Gemini on
\* the extracted text between the text extraction and the Synonym Matcher
codeRank(step) ==
  CASE step = "multimodal" -> 1
    [] step = "pdf-parse" -> 2
    [] step = "ocr" -> 3
    [] step = "gemini-text" -> 4
    [] step = "synonym" -> 5
    [] OTHER -> 0

\* C11 as amended: the steps of one document start one at a time in the order AI
\* multimodal, pdf-parse, OCR, Gemini on the extracted text, Synonym Matcher,
\* each at most once and the AI steps only with an API key; a result ends the
\* run, and there is no raw-line placeholder step.
C11_StepsInCodeOrder ==
  /\ \A i \in 1..Len(tried) : codeRank(tried[i]) # 0
  /\ \A i, j \in 1..Len(tried) : i < j => codeRank(tried[i]) < codeRank(tried[j])
  /\ (\E i \in 1..Len(tried) : tried[i] \in {"multimodal", "gemini-text"}) => apiKey
  /\ result # None => pc = "returned"
  /\ pc = "returned" => ~ENABLED PipeNext

\* every step of the code ran, in order, before the Synonym Matcher gave the result
C11_Witness ==
  /\ pc = "returned"
  /\ tried = <<"multimodal", "pdf-parse", "ocr", "gemini-text", "synonym">>
  /\ result[1].note.strategy = "synonym"

----------------------------------------------------------------------------
(* When the Synonym Matcher runs *)

\* C12 as stated: the Synonym Matcher runs only without an API key or after every
\* model of the priority list has been tried without a result.
C12_SynonymOnlyAfterExhaustion ==
  (\E i \in 1..Len(tried) : tried[i] = "synonym") =>
    \/ ~apiKey
    \/ modelIdx = Len(Models)

\* C12 as amended: the Synonym Matcher runs only without an API key or after both
\* AI stages ended without a result: the multimodal stage (its list exhausted, or
\* cut short by a fatal error) and then the Gemini call on the extracted text.
C12_SynonymOnlyAfterAiFailed ==
  (\E i \in 1..Len(tried) : tried[i] = "synonym") =>
    /\ pc = "returned"
    /\ result[1].note.strategy = "synonym"
    /\ \/ ~apiKey
       \/ /\ tried[1] = "multimodal"
          /\ \E i \in 1..Len(tried) : tried[i] = "gemini-text"

\* with a key configured, the Synonym Matcher ran although only the first model
\* of the list had been tried
C12_Witness ==
  /\ apiKey
  /\ pc = "returned"
  /\ result[1].note.strategy = "synonym"
  /\ modelIdx = 1

----------------------------------------------------------------------------
(* The model list of the multimodal stage *)

\* an error of a generateContent call that the stage answers by trying the next model
isRejection(outcome) == outcome.kind = "error" /\ outcome.status \in {400, 404}

\* any other failure of a call: another status, a transport error, a response
\* that does not parse
isFatal(outcome) ==
  \/ outcome.kind = "error" /\ outcome.status \notin {400, 404}
  \/ outcome.kind = "malformed"

\* C13: the multimodal stage tries the models in their priority order; a 400 or
\* 404 from a model makes it try the next one, and any other error ends the
\* stage: no model is tried after it.
C13_RejectionNextOtherFatal ==
  /\ \A i \in 1..Len(calls) : calls[i].model = Models[i]
  /\ \A i \in 1..Len(calls) :
       /\ isFatal(calls[i].outcome) => (i = Len(calls) /\ pc # "multimodal")
       /\ (isRejection(calls[i].outcome) /\ i < Len(Models)) =>
            (i < Len(calls) \/ (pc = "multimodal" /\ modelIdx = i + 1))

\* the first model was rejected with 404, the second failed with 429, and the
\* stage ended with the third model untried
C13_Witness ==
  /\ Len(calls) = 2
  /\ calls[1].outcome.kind = "error" /\ calls[1].outcome.status = 404
  /\ calls[2].outcome.kind = "error" /\ calls[2].outcome.status = 429
  /\ pc = "returned"

\* C14: when the call to a model fails with a transport error (no status) or a
\* quota error (429) and the priority list has a next model, the stage tries
\* that next model.
C14_TransportQuotaRetriesNext ==
  \A i \in 1..Len(calls) :
    ( /\ calls[i].outcome.kind = "error"
      /\ calls[i].outcome.status \in {0, 429}
      /\ i < Len(Models) ) =>
      (i < Len(calls) \/ (pc = "multimodal" /\ modelIdx = i + 1))

----------------------------------------------------------------------------
(* synonymMatch on the characters of a text *)

\* SYNONYM_MAP: the aliases of each canonical key, which are all in lower case
SYNONYM_MAP ==
  "owners_capital" :>
       { <<"o", "w", "n", "e", "r", "s", " ", "c", "a", "p", "i", "t", "a", "l">>,
         <<"c", "a", "p", "i", "t", "a", "l", " ", "a", "c", "c", "o", "u", "n", "t">>,
         <<"p", "a", "r", "t", "n", "e", "r", " ", "c", "a", "p", "i", "t", "a", "l">>,
         <<"p", "r", "o", "p", "r", "i", "e", "t", "o", "r", " ", "c", "a", "p", "i", "t", "a", "l">>,
         <<"p", "r", "o", "p", "r", "i", "e", "t", "o", "r", "'", "s", " ", "c", "a", "p", "i", "t", "a", "l">>,
         <<"p", "a", "r", "t", "n", "e", "r", "s", " ", "c", "a", "p", "i", "t", "a", "l">>,
         <<"c", "a", "p", "i", "t", "a", "l", " ", "&", " ", "r", "e", "s", "e", "r", "v", "e", "s">>,
         <<"r", "e", "s", "e", "r", "v", "e", "s", " ", "&", " ", "s", "u", "r", "p", "l", "u", "s">>,
         <<"s", "h", "a", "r", "e", "h", "o", "l", "d", "e", "r", "s", " ", "f", "u", "n", "d", "s">>,
         <<"n", "e", "t", "w", "o", "r", "t", "h">>,
         <<"n", "e", "t", " ", "w", "o", "r", "t", "h">>,
         <<"e", "q", "u", "i", "t", "y", " ", "c", "a", "p", "i", "t", "a", "l">>,
         <<"p", "r", "o", "p", "r", "i", "e", "t", "o", "r", "s", " ", "f", "u", "n", "d">>,
         <<"c", "a", "p", "i", "t", "a", "l", " ", "f", "u", "n", "d">> }
  @@ "total_liabilities" :>
       { <<"t", "o", "t", "a", "l", " ", "l", "i", "a", "b", "i", "l", "i", "t", "i", "e", "s">>,
         <<"t", "o", "t", "a", "l", " ", "o", "f", " ", "l", "i", "a", "b", "i", "l", "i", "t", "i", "e", "s", " ", "s", "i", "d", "e">>,
         <<"t", "o", "t", "a", "l", " ", "l", "i", "a", "b", "i", "l", "i", "t", "i", "e", "s", " ", "s", "i", "d", "e">>,
         <<"t", "o", "t", "a", "l", " ", "(", "l", "i", "a", "b", "i", "l", "i", "t", "i", "e", "s", ")">>,
         <<"g", "r", "a", "n", "d", " ", "t", "o", "t", "a", "l", " ", "l", "i", "a", "b", "i", "l", "i", "t", "i", "e", "s">>,
         <<"t", "o", "t", "a", "l", " ", "e", "q", "u", "i", "t", "y", " ", "&", " ", "l", "i", "a", "b", "i", "l", "i", "t", "i", "e", "s">>,
         <<"t", "o", "t", "a", "l", " ", "s", "o", "u", "r", "c", "e", "s", " ", "o", "f", " ", "f", "u", "n", "d", "s">> }
  @@ "pbit" :>
       { <<"p", "b", "i", "t">>,
         <<"p", "r", "o", "f", "i", "t", " ", "b", "e", "f", "o", "r", "e", " ", "i", "n", "t", "e", "r", "e", "s", "t", " ", "a", "n", "d", " ", "t", "a", "x">>,
         <<"p", "r", "o", "f", "i", "t", " ", "b", "e", "f", "o", "r", "e", " ", "i", "n", "t", "e", "r", "e", "s", "t", " ", "&", " ", "t", "a", "x">>,
         <<"o", "p", "e", "r", "a", "t", "i", "n", "g", " ", "p", "r", "o", "f", "i", "t", " ", "b", "e", "f", "o", "r", "e", " ", "i", "n", "t", "e", "r", "e", "s", "t">>,
         <<"e", "b", "i", "t">>,
         <<"e", "a", "r", "n", "i", "n", "g", "s", " ", "b", "e", "f", "o", "r", "e", " ", "i", "n", "t", "e", "r", "e", "s", "t", " ", "a", "n", "d", " ", "t", "a", "x">>,
         <<"n", "e", "t", " ", "p", "r", "o", "f", "i", "t", " ", "b", "e", "f", "o", "r", "e", " ", "i", "n", "t", "e", "r", "e", "s", "t", " ", "a", "n", "d", " ", "t", "a", "x">>,
         <<"p", "r", "o", "f", "i", "t", " ", "b", "e", "f", "o", "r", "e", " ", "t", "a", "x", " ", "+", " ", "i", "n", "t", "e", "r", "e", "s", "t">> }
  @@ "interest" :>
       { <<"i", "n", "t", "e", "r", "e", "s", "t">>,
         <<"i", "n", "t", "e", "r", "e", "s", "t", " ", "o", "n", " ", "l", "o", "a", "n">>,
         <<"i", "n", "t", "e", "r", "e", "s", "t", " ", "o", "n", " ", "l", "o", "a", "n", "s">>,
         <<"b", "a", "n", "k", " ", "i", "n", "t", "e", "r", "e", "s", "t">>,
         <<"f", "i", "n", "a", "n", "c", "e", " ", "c", "h", "a", "r", "g", "e", "s">>,
         <<"i", "n", "t", "e", "r", "e", "s", "t", " ", "e", "x", "p", "e", "n", "s", "e", "s">>,
         <<"i", "n", "t", "e", "r", "e", "s", "t", " ", "p", "a", "i", "d">>,
         <<"i", "n", "t", "e", "r", "e", "s", "t", " ", "o", "n", " ", "b", "o", "r", "r", "o", "w", "i", "n", "g", "s">>,
         <<"i", "n", "t", "e", "r", "e", "s", "t", " ", "&", " ", "f", "i", "n", "a", "n", "c", "e", " ", "c", "h", "a", "r", "g", "e", "s">>,
         <<"b", "o", "r", "r", "o", "w", "i", "n", "g", " ", "c", "o", "s", "t">> }
  @@ "accounts_payable" :>
       { <<"a", "c", "c", "o", "u", "n", "t", "s", " ", "p", "a", "y", "a", "b", "l", "e">>,
         <<"t", "r", "a", "d", "e", " ", "p", "a", "y", "a", "b", "l", "e", "s">>,
         <<"s", "u", "n", "d", "r", "y", " ", "c", "r", "e", "d", "i", "t", "o", "r", "s">>,
         <<"c", "r", "e", "d", "i", "t", "o", "r", "s", " ", "f", "o", "r", " ", "g", "o", "o", "d", "s">>,
         <<"t", "r", "a", "d", "e", " ", "c", "r", "e", "d", "i", "t", "o", "r", "s">>,
         <<"c", "r", "e", "d", "i", "t", "o", "r", "s">>,
         <<"p", "a", "y", "a", "b", "l", "e", "s">>,
         <<"c", "r", "e", "d", "i", "t", "o", "r", "s", " ", "f", "o", "r", " ", "p", "u", "r", "c", "h", "a", "s", "e">> }
  @@ "accounts_receivable" :>
       { <<"a", "c", "c", "o", "u", "n", "t", "s", " ", "r", "e", "c", "e", "i", "v", "a", "b", "l", "e">>,
         <<"t", "r", "a", "d", "e", " ", "r", "e", "c", "e", "i", "v", "a", "b", "l", "e", "s">>,
         <<"s", "u", "n", "d", "r", "y", " ", "d", "e", "b", "t", "o", "r", "s">>,
         <<"d", "e", "b", "t", "o", "r", "s">>,
         <<"d", "e", "b", "t", "o", "r", "s", " ", "o", "u", "t", "s", "t", "a", "n", "d", "i", "n", "g">>,
         <<"r", "e", "c", "e", "i", "v", "a", "b", "l", "e", "s">>,
         <<"b", "o", "o", "k", " ", "d", "e", "b", "t", "s">>,
         <<"t", "r", "a", "d", "e", " ", "d", "e", "b", "t", "o", "r", "s">> }
  @@ "dealer_turnover" :>
       { <<"d", "e", "a", "l", "e", "r", " ", "t", "u", "r", "n", "o", "v", "e", "r">>,
         <<"s", "a", "l", "e", "s">>,
         <<"g", "r", "o", "s", "s", " ", "s", "a", "l", "e", "s">>,
         <<"n", "e", "t", " ", "s", "a", "l", "e", "s">>,
         <<"r", "e", "v", "e", "n", "u", "e", " ", "f", "r", "o", "m", " ", "o", "p", "e", "r", "a", "t", "i", "o", "n", "s">>,
         <<"t", "u", "r", "n", "o", "v", "e", "r">>,
         <<"t", "o", "t", "a", "l", " ", "s", "a", "l", "e", "s">>,
         <<"t", "o", "t", "a", "l", " ", "r", "e", "v", "e", "n", "u", "e">>,
         <<"n", "e", "t", " ", "t", "u", "r", "n", "o", "v", "e", "r">>,
         <<"t", "o", "t", "a", "l", " ", "t", "u", "r", "n", "o", "v", "e", "r">> }
  @@ "purchases" :>
       { <<"p", "u", "r", "c", "h", "a", "s", "e", "s">>,
         <<"n", "e", "t", " ", "p", "u", "r", "c", "h", "a", "s", "e", "s">>,
         <<"p", "u", "r", "c", "h", "a", "s", "e", " ", "o", "f", " ", "g", "o", "o", "d", "s">>,
         <<"p", "u", "r", "c", "h", "a", "s", "e">>,
         <<"g", "o", "o", "d", "s", " ", "p", "u", "r", "c", "h", "a", "s", "e", "d">>,
         <<"c", "o", "s", "t", " ", "o", "f", " ", "g", "o", "o", "d", "s", " ", "p", "u", "r", "c", "h", "a", "s", "e", "d">>,
         <<"t", "o", "t", "a", "l", " ", "p", "u", "r", "c", "h", "a", "s", "e", "s">> }
  @@ "current_assets" :>
       { <<"c", "u", "r", "r", "e", "n", "t", " ", "a", "s", "s", "e", "t", "s">>,
         <<"t", "o", "t", "a", "l", " ", "c", "u", "r", "r", "e", "n", "t", " ", "a", "s", "s", "e", "t", "s">>,
         <<"c", "u", "r", "r", "e", "n", "t", " ", "a", "s", "s", "e", "t", "s", " ", "(", "a", ")">>,
         <<"c", "u", "r", "r", "e", "n", "t", " ", "a", "s", "s", "e", "t", "s", " ", "t", "o", "t", "a", "l">> }
  @@ "current_liabilities" :>
       { <<"c", "u", "r", "r", "e", "n", "t", " ", "l", "i", "a", "b", "i", "l", "i", "t", "i", "e", "s">>,
         <<"t", "o", "t", "a", "l", " ", "c", "u", "r", "r", "e", "n", "t", " ", "l", "i", "a", "b", "i", "l", "i", "t", "i", "e", "s">>,
         <<"c", "u", "r", "r", "e", "n", "t", " ", "l", "i", "a", "b", "i", "l", "i", "t", "i", "e", "s", " ", "(", "b", ")">>,
         <<"c", "u", "r", "r", "e", "n", "t", " ", "l", "i", "a", "b", "i", "l", "i", "t", "i", "e", "s", " ", "t", "o", "t", "a", "l">>,
         <<"c", "u", "r", "r", "e", "n", "t", " ", "l", "i", "a", "b", "i", "l", "i", "t", "i", "e", "s", " ", "&", " ", "p", "r", "o", "v", "i", "s", "i", "o", "n", "s">> }

IsDigit(c) == c \in {"0", "1", "2", "3", "4", "5", "6", "7", "8", "9"}

digitValue(c) ==
  CASE c = "0" -> 0 [] c = "1" -> 1 [] c = "2" -> 2 [] c = "3" -> 3 [] c = "4" -> 4
    [] c = "5" -> 5 [] c = "6" -> 6 [] c = "7" -> 7 [] c = "8" -> 8 [] c = "9" -> 9

IsCurrency(c) == c \in {"₹", "$", "€", "£", "¥"}

\* the index after the longest run of characters satisfying Test that starts at i
runEnd(s, i, Test(_)) ==
  CHOOSE e \in i..Max(i, Len(s) + 1) :
    /\ \A k \in i..(e - 1) : Test(s[k])
    /\ e > Len(s) \/ ~Test(s[e])

\* s matches [₹$€£¥]?\s*\(?-? as a whole
isAmountPrefix(s) ==
  LET a == IF s # <<>> /\ IsCurrency(Head(s)) THEN Tail(s) ELSE s
      b == trimStart(a)
      c == IF b # <<>> /\ Head(b) = "(" THEN Tail(b) ELSE b
      d == IF c # <<>> /\ Head(c) = "-" THEN Tail(c) ELSE c
  IN d = <<>>

\* line.match(/[₹$€£¥]?\s*\(?-?\d[\d,]*(?:\.\d+)?\)?/): the leftmost match, which
\* holds the first digit of the line, or None
numMatch(s) ==
  IF \A i \in 1..Len(s) : ~IsDigit(s[i]) THEN None
  ELSE LET IsDigitOrComma(c) == IsDigit(c) \/ c = ","
           p     == CHOOSE i \in 1..Len(s) : IsDigit(s[i]) /\ \A j \in 1..(i - 1) : ~IsDigit(s[j])
           start == CHOOSE a \in 1..p :
                      /\ isAmountPrefix(SubSeq(s, a, p - 1))
                      /\ \A b \in 1..(a - 1) : ~isAmountPrefix(SubSeq(s, b, p - 1))
           e1    == runEnd(s, p + 1, IsDigitOrComma)
           e2    == IF e1 + 1 <= Len(s) /\ s[e1] = "." /\ IsDigit(s[e1 + 1])
                    THEN runEnd(s, e1 + 1, IsDigit) ELSE e1
           e3    == IF e2 <= Len(s) /\ s[e2] = ")" THEN e2 + 1 ELSE e2
       IN <<SubSeq(s, start, e3 - 1)>>

\* .replace(/[₹$€£¥,\s]/g, "")
stripAmount(s) ==
  LET Kept(c) == ~(IsCurrency(c) \/ c = "," \/ IsSpace(c))
  IN filterSeq(s, Kept)

\* .replace(/\((.+)\)/, "-$1"): the leftmost "(" that has a ")" two or more
\* places after it, up to the last ")"
parenNegate(s) ==
  LET opens == {i \in 1..Len(s) : s[i] = "(" /\ \E j \in (i + 2)..Len(s) : s[j] = ")"}
  IN IF opens = {} THEN s
     ELSE LET i == CHOOSE a \in opens : \A b \in opens : a <= b
              j == CHOOSE a \in (i + 2)..Len(s) :
                     s[a] = ")" /\ \A b \in (a + 1)..Len(s) : s[b] # ")"
          IN SubSeq(s, 1, i - 1) \o <<"-">> \o SubSeq(s, i + 1, j - 1)
               \o SubSeq(s, j + 1, Len(s))

RECURSIVE digitsValue(_)
digitsValue(ds) ==
  IF ds = <<>> THEN 0 ELSE 10 * digitsValue(SubSeq(ds, 1, Len(ds) - 1)) + digitValue(ds[Len(ds)])

RECURSIVE dropTrailingZeros(_)
dropTrailingZeros(ds) ==
  IF ds # <<>> /\ ds[Len(ds)] = "0" THEN dropTrailingZeros(SubSeq(ds, 1, Len(ds) - 1)) ELSE ds

\* parseFloat: the number written by the longest prefix sign? digits* (. digits*)?
\* that holds a digit, as its sign, integer part and fraction digits; None is NaN
parseFloat(s) ==
  LET t      == trimStart(s)
      signed == t # <<>> /\ Head(t) \in {"-", "+"}
      u      == IF signed THEN Tail(t) ELSE t
      e1     == runEnd(u, 1, IsDigit)
      e2     == IF e1 <= Len(u) /\ u[e1] = "." THEN runEnd(u, e1 + 1, IsDigit) ELSE e1
      int    == SubSeq(u, 1, e1 - 1)
      frac   == SubSeq(u, e1 + 1, e2 - 1)
  IN IF int = <<>> /\ frac = <<>> THEN None
     ELSE << [neg  |-> signed /\ Head(t) = "-",
              int  |-> digitsValue(int),
              frac |-> dropTrailingZeros(frac)] >>

\* the amount synonymMatch reads in a line: the number of its first match, if any
amountOf(s) ==
  LET m == numMatch(s)
  IN IF m = None THEN None ELSE parseFloat(parenNegate(stripAmount(m[1])))

\* the canonical keys one of whose aliases occurs in the lower-cased line
hitsOf(lower) ==
  {key \in DOMAIN SYNONYM_MAP : \E syn \in SYNONYM_MAP[key] : includes(lower, toLowerCase(syn))}

\* rawText.split(/\r?\n/).map(l => l.trim()).filter(Boolean), on the split text
trimmedLines(rawLines) ==
  LET NonEmpty(l) == l # <<>>
  IN filterSeq([i \in 1..Len(rawLines) |-> trim(rawLines[i])], NonEmpty)

\* what synonymMatch keeps of a line
lineRecord(l) == line(Len(l), hitsOf(toLowerCase(l)), amountOf(l))

\* synonymMatch(rawText) for a text given as its lines
synonymMatchText(rawLines) ==
  LET lines == trimmedLines(rawLines)
  IN synonymMatch([i \in 1..Len(lines) |-> lineRecord(lines[i])])

\* the lines the texts are made of: alias lines of every canonical key, a
\* heading and an empty line
LinePool ==
  { <<"S", "u", "n", "d", "r", "y", " ", "C", "r", "e", "d", "i", "t", "o", "r", "s", ":", " ", "1", ",", "2", "3", ",", "4", "5", "6", ".", "0", "0">>,
    <<"P", "r", "o", "f", "i", "t", " ", "b", "e", "f", "o", "r", "e", " ", "i", "n", "t", "e", "r", "e", "s", "t", " ", "a", "n", "d", " ", "t", "a", "x", ":", " ", "(", "1", ",", "2", "3", "4", ")">>,
    <<"I", "n", "t", "e", "r", "e", "s", "t", ":", " ", "-", "5", "0", "0">>,
    <<"C", "r", "e", "d", "i", "t", "o", "r", "s", " ", "f", "o", "r", " ", "p", "u", "r", "c", "h", "a", "s", "e", ":", " ", "2", ",", "0", "0", "0">>,
    <<"P", "u", "r", "c", "h", "a", "s", "e", "s", ":", " ", "3", "0", "0">>,
    <<"B", "a", "l", "a", "n", "c", "e", " ", "S", "h", "e", "e", "t">>,
    <<" ", " ">>,
    <<"N", "e", "t", " ", "w", "o", "r", "t", "h", " ", "₹", " ", "7", "5", ".", "5", "0">>,
    <<"T", "o", "t", "a", "l", " ", "L", "i", "a", "b", "i", "l", "i", "t", "i", "e", "s", " ", "9", ",", "0", "0", "0">>,
    <<"S", "a", "l", "e", "s", ":", " ", "4", ",", "5", "0", "0">>,
    <<" ", " ", "D", "e", "b", "t", "o", "r", "s", ":", " ", "1", "2", "0", " ">>,
    <<"C", "u", "r", "r", "e", "n", "t", " ", "A", "s", "s", "e", "t", "s", ":", " ", "6", "0">>,
    <<"C", "u", "r", "r", "e", "n", "t", " ", "L", "i", "a", "b", "i", "l", "i", "t", "i", "e", "s", ":", " ", "4", "0">> }

MaxLines == 2

TextPool == UNION {[1..n -> LinePool] : n \in 1..MaxLines}
SynonymMatchCall ==
  /\ callOf = "none"
  /\ callOf' = "synonymMatch"
  /\ output' = <<synonymMatchText(inputText)>>
  /\ UNCHANGED <<inputText, memVars, applyVars, pipeVars, raceVars, tenantVars, uploadVars, templateVars, dealerVars>>

InitSynonym ==
  /\ inputText \in TextPool
  /\ callOf = "none"
  /\ output = None
  /\ firestoreDoc = NoDoc
  /\ fileDoc = NoDoc
  /\ dbAvailable = FALSE
  /\ hist = None
  /\ applyFields = <<>>
  /\ matches = <<>>
  /\ applyDone = FALSE
  /\ pc = "idle"
  /\ apiKey = FALSE
  /\ nativeText = None
  /\ modelIdx = 1
  /\ rawText = <<>>
  /\ result = None
  /\ tried = <<>>
  /\ calls = <<>>
  /\ dealers = <<>>
  /\ saving = <<>>
  /\ answers = <<>>
  /\ templates = <<>>
  /\ importResult = <<>>
  /\ uploads = <<>>
  /\ jobs = <<>>
  /\ now = 0
  /\ response = [route |-> "none", status |-> 0]
  /\ processing = <<>>
  /\ files = <<>>
  /\ collection = <<>>
  /\ lastTenant = <<>>
  /\ procPc = <<>>
  /\ procReq = <<>>
  /\ procStore = <<>>
  /\ pending = <<>>
  /\ lastWriter = <<>>

SynonymSpec == InitSynonym /\ [][SynonymMatchCall]_vars

\* amounts written as the specification describes them, with the number each
\* one stands for: commas stripped, sign kept, a parenthesized amount negated
WellFormedAmounts ==
  { [chars |-> <<"1", ",", "2", "3", ",", "4", "5", "6", ".", "0", "0">>,
     value |-> [neg |-> FALSE, int |-> 123456, frac |-> <<>>]],
    [chars |-> <<"(", "1", ",", "2", "3", "4", ")">>,
     value |-> [neg |-> TRUE, int |-> 1234, frac |-> <<>>]],
    [chars |-> <<"-", "5", "0", "0">>, value |-> [neg |-> TRUE, int |-> 500, frac |-> <<>>]],
    [chars |-> <<"2", ",", "0", "0", "0">>, value |-> [neg |-> FALSE, int |-> 2000, frac |-> <<>>]],
    [chars |-> <<"9", ",", "0", "0", "0">>, value |-> [neg |-> FALSE, int |-> 9000, frac |-> <<>>]],
    [chars |-> <<"4", ",", "5", "0", "0">>, value |-> [neg |-> FALSE, int |-> 4500, frac |-> <<>>]],
    [chars |-> <<"3", "0", "0">>, value |-> [neg |-> FALSE, int |-> 300, frac |-> <<>>]],
    [chars |-> <<"1", "2", "0">>, value |-> [neg |-> FALSE, int |-> 120, frac |-> <<>>]],
    [chars |-> <<"6", "0">>, value |-> [neg |-> FALSE, int |-> 60, frac |-> <<>>]],
    [chars |-> <<"4", "0">>, value |-> [neg |-> FALSE, int |-> 40, frac |-> <<>>]],
    [chars |-> <<"₹", " ", "7", "5", ".", "5", "0">>,
     value |-> [neg |-> FALSE, int |-> 75, frac |-> <<"5">>]] }

\* the line is an alias of the key next to the amount: "<alias>: <amount>" or
\* "<alias> <amount>", in any letter case, with blanks around it or not
isAliasLine(l, key, amount) ==
  \E syn \in SYNONYM_MAP[key], sep \in {<<":", " ">>, <<" ">>} :
    toLowerCase(trim(l)) = syn \o sep \o amount.chars

\* C15: whenever a line of the text is an exact alias of a canonical key next to
\* a well-formed amount (the first such line of that key), synonymMatch
\* populates that key with the number the amount stands for, whatever the other
\* lines of the text are.
C15_AliasLinePopulatesKey ==
  callOf = "synonymMatch" =>
    \A i \in 1..Len(inputText) : \A key \in DOMAIN SYNONYM_MAP : \A amount \in WellFormedAmounts :
      ( /\ isAliasLine(inputText[i], key, amount)
        /\ \A j \in 1..(i - 1) : \A other \in WellFormedAmounts :
             ~isAliasLine(inputText[j], key, other) ) =>
        /\ key \in DOMAIN output[1]
        /\ output[1][key] = amount.value

\* a text of one alias line gives its key the number of its amount: the
\* example of the specification, 'Sundry Creditors: 1,23,456.00'
SingleAliasLineParsed ==
  (callOf = "synonymMatch" /\ Len(inputText) = 1) =>
    \A key \in DOMAIN SYNONYM_MAP : \A amount \in WellFormedAmounts :
      isAliasLine(inputText[1], key, amount) =>
        /\ key \in DOMAIN output[1]
        /\ output[1][key] = amount.value

----------------------------------------------------------------------------
(* isWatermarkOnly and the "scanned" test of extractFieldsFromPdfBuffer *)

RECURSIVE sumOfLengths(_)
sumOfLengths(S) ==
  IF S = {} THEN 0
  ELSE LET l == CHOOSE x \in S : TRUE IN Len(l) + sumOfLengths(S \ {l})

\* a function that finds no watermark in a text that has lines
M_isWatermarkOnlyNever(rawLines) == trimmedLines(rawLines) = <<>>

\* isWatermarkOnly(text) for a text given as its lines
isWatermarkOnly(rawLines) ==
  LET lines  == trimmedLines(rawLines)
      unique == {toLowerCase(lines[i]) : i \in 1..Len(lines)}
  IN IF Len(lines) = 0 THEN TRUE
     ELSE IF Cardinality(unique) <= 3 /\ Len(lines) >= 3
          THEN sumOfLengths(unique) < 40 * Cardinality(unique)
          ELSE FALSE

\* parsed.text.trim().length: the lines joined by newlines, without the white
\* space at both ends of the text
RECURSIVE trimmedTextLength(_)
trimmedTextLength(rawLines) ==
  IF rawLines = <<>> THEN 0
  ELSE IF trim(Head(rawLines)) = <<>> THEN trimmedTextLength(Tail(rawLines))
  ELSE IF trim(rawLines[Len(rawLines)]) = <<>>
       THEN trimmedTextLength(SubSeq(rawLines, 1, Len(rawLines) - 1))
  ELSE IF Len(rawLines) = 1 THEN Len(trim(rawLines[1]))
  ELSE Len(trimStart(Head(rawLines))) + Len(trimEnd(rawLines[Len(rawLines)]))
         + sumOfLengths({<<i>> \o rawLines[i] : i \in 2..(Len(rawLines) - 1)})
         - (Len(rawLines) - 2) + (Len(rawLines) - 1)

\* const scanned = !rawText || rawText.length < 20 || isWatermarkOnly(rawText)
scanned(rawLines) ==
  \/ trimmedTextLength(rawLines) < 20
  \/ isWatermarkOnly(rawLines)

repeated(l, n) == [i \in 1..n |-> l]

CompanyScan == <<"C", "o", "m", "p", "a", "n", "y", "S", "c", "a", "n">>

\* a stamp in two letter cases, a page mark, an empty line, and lines of 45 and
\* of 80 characters
WatermarkLines ==
  { CompanyScan, toLowerCase(CompanyScan), <<"P", "a", "g", "e", " ", "1">>, <<" ">>,
    repeated("x", 45), repeated("y", 80) }

MaxStampLines == 4

WatermarkTexts ==
  UNION {[1..n -> WatermarkLines] : n \in 1..MaxStampLines} \cup {repeated(CompanyScan, 20)}

ClassifyCall ==
  /\ callOf = "none"
  /\ callOf' = "isWatermarkOnly"
  /\ output' = <<[watermark |-> isWatermarkOnly(inputText), scanned |-> scanned(inputText)]>>
  /\ UNCHANGED <<inputText, memVars, applyVars, pipeVars, raceVars, tenantVars, uploadVars, templateVars, dealerVars>>

InitWatermark ==
  /\ inputText \in WatermarkTexts
  /\ callOf = "none"
  /\ output = None
  /\ firestoreDoc = NoDoc
  /\ fileDoc = NoDoc
  /\ dbAvailable = FALSE
  /\ hist = None
  /\ applyFields = <<>>
  /\ matches = <<>>
  /\ applyDone = FALSE
  /\ pc = "idle"
  /\ apiKey = FALSE
  /\ nativeText = None
  /\ modelIdx = 1
  /\ rawText = <<>>
  /\ result = None
  /\ tried = <<>>
  /\ calls = <<>>
  /\ dealers = <<>>
  /\ saving = <<>>
  /\ answers = <<>>
  /\ templates = <<>>
  /\ importResult = <<>>
  /\ uploads = <<>>
  /\ jobs = <<>>
  /\ now = 0
  /\ response = [route |-> "none", status |-> 0]
  /\ processing = <<>>
  /\ files = <<>>
  /\ collection = <<>>
  /\ lastTenant = <<>>
  /\ procPc = <<>>
  /\ procReq = <<>>
  /\ procStore = <<>>
  /\ pending = <<>>
  /\ lastWriter = <<>>

WatermarkSpec == InitWatermark /\ [][ClassifyCall]_vars

\* the non-empty lines of the text, and its distinct lines (a line in another
\* letter case is the same line)
nonEmptyLines == trimmedLines(inputText)

distinctLines == {toLowerCase(nonEmptyLines[i]) : i \in 1..Len(nonEmptyLines)}

----------------------------------------------------------------------------
(* Concurrent learnMappings calls of one tenant *)

MaxLearners == 2

Procs == 1..MaxLearners

\* the one mapping row of each concurrent request; its sourceKey is the label
RaceRows ==
  { [sourceKey |-> L_ab,  targetType |-> "field", targetKey |-> "owners_capital"],
    [sourceKey |-> L_abc, targetType |-> "field", targetKey |-> "owners_capital"],
    [sourceKey |-> L_bad, targetType |-> "field", targetKey |-> "pbit"] }

\* a store left by an earlier learn
seedStore ==
  [tenantId |-> Tenant,
   entries |-> << [targetKey |-> "owners_capital", targetType |-> "field",
                   sourceLabels |-> <<L_ab>>, usageCount |-> 1] >>]

\* db.collection(COLLECTION).doc(store.tenantId).set(store): the whole document
saveToFirestore(store) == firestoreDoc' = <<store>>

\* a write that leaves an existing file as it is
M_saveToFileKeepFirst(store) == fileDoc' = IF fileDoc = NoDoc THEN <<store>> ELSE fileDoc

\* fs.writeFile(filePath, JSON.stringify(store)): the whole file
saveToFile(store) == fileDoc' = <<store>>

\* the writes persistMappingMemory starts: saveToFirestore writes only with a handle
writesOf == IF dbAvailable THEN {"firestore", "file"} ELSE {"file"}

\* the loop of learnMappings over the request's rows, on the store just loaded
mutated(p, loaded) == learnMappings(loaded, <<procReq[p]>>, <<>>)

\* await loadFromFirestore(tenantId): with a document the store is mutated at
\* once and persistMappingMemory is started; otherwise loadFromFile comes next
RaceLoadFirestore(p) ==
  /\ procPc[p] = "loadFirestore"
  /\ IF loadFromFirestore # NoDoc
     THEN /\ procStore' = [procStore EXCEPT ![p] = <<mutated(p, loadFromFirestore[1])>>]
          /\ procPc' = [procPc EXCEPT ![p] = "persist"]
          /\ pending' = [pending EXCEPT ![p] = writesOf]
     ELSE /\ procPc' = [procPc EXCEPT ![p] = "loadFile"]
          /\ UNCHANGED <<procStore, pending>>
  /\ UNCHANGED <<procReq, lastWriter, memVars, applyVars, pipeVars, textVars, tenantVars, uploadVars, templateVars, dealerVars>>

\* loadFromFile(tenantId), the mutation, and the start of persistMappingMemory
RaceLoadFile(p) ==
  /\ procPc[p] = "loadFile"
  /\ procStore' = [procStore EXCEPT ![p] = <<mutated(p, loadFromFile)>>]
  /\ procPc' = [procPc EXCEPT ![p] = "persist"]
  /\ pending' = [pending EXCEPT ![p] = writesOf]
  /\ UNCHANGED <<procReq, lastWriter, memVars, applyVars, pipeVars, textVars, tenantVars, uploadVars, templateVars, dealerVars>>

\* the write of saveToFirestore lands
RaceSaveFirestore(p) ==
  /\ procPc[p] = "persist"
  /\ "firestore" \in pending[p]
  /\ saveToFirestore(procStore[p][1])
  /\ pending' = [pending EXCEPT ![p] = @ \ {"firestore"}]
  /\ lastWriter' = [lastWriter EXCEPT !.firestore = p]
  /\ procPc' = [procPc EXCEPT ![p] = IF pending'[p] = {} THEN "done" ELSE @]
  /\ UNCHANGED <<procReq, procStore, fileDoc, dbAvailable, hist, applyVars, pipeVars, textVars, tenantVars, uploadVars, templateVars, dealerVars>>

\* the write of saveToFile lands
RaceSaveFile(p) ==
  /\ procPc[p] = "persist"
  /\ "file" \in pending[p]
  /\ saveToFile(procStore[p][1])
  /\ pending' = [pending EXCEPT ![p] = @ \ {"file"}]
  /\ lastWriter' = [lastWriter EXCEPT !.file = p]
  /\ procPc' = [procPc EXCEPT ![p] = IF pending'[p] = {} THEN "done" ELSE @]
  /\ UNCHANGED <<procReq, procStore, firestoreDoc, dbAvailable, hist, applyVars, pipeVars, textVars, tenantVars, uploadVars, templateVars, dealerVars>>

\* the requests have arrived; the tenant has no store yet or the one an earlier
\* learn left in both backends
InitRace ==
  /\ procPc = [p \in Procs |-> "loadFirestore"]
  /\ procReq \in [Procs -> RaceRows]
  /\ procStore = [p \in Procs |-> None]
  /\ pending = [p \in Procs |-> {}]
  /\ lastWriter = [firestore |-> 0, file |-> 0]
  /\ dbAvailable \in BOOLEAN
  /\ fileDoc \in {NoDoc, <<seedStore>>}
  /\ firestoreDoc = IF dbAvailable THEN fileDoc ELSE NoDoc
  /\ hist = None
  /\ applyFields = <<>>
  /\ matches = <<>>
  /\ applyDone = FALSE
  /\ pc = "idle"
  /\ apiKey = FALSE
  /\ nativeText = None
  /\ modelIdx = 1
  /\ rawText = <<>>
  /\ result = None
  /\ tried = <<>>
  /\ calls = <<>>
  /\ dealers = <<>>
  /\ saving = <<>>
  /\ answers = <<>>
  /\ templates = <<>>
  /\ importResult = <<>>
  /\ uploads = <<>>
  /\ jobs = <<>>
  /\ now = 0
  /\ response = [route |-> "none", status |-> 0]
  /\ processing = <<>>
  /\ files = <<>>
  /\ collection = <<>>
  /\ lastTenant = <<>>
  /\ inputText = <<>>
  /\ callOf = "none"
  /\ output = None

RaceNext ==
  \E p \in Procs :
    \/ RaceLoadFirestore(p)
    \/ RaceLoadFile(p)
    \/ RaceSaveFirestore(p)
    \/ RaceSaveFile(p)

RaceSpec == InitRace /\ [][RaceNext]_vars

\* the variants a store knows for a target
labelsOf(store, targetKey) ==
  LET i == findEntry(store.entries, targetKey)
  IN IF i = 0 THEN {}
     ELSE {store.entries[i].sourceLabels[k] : k \in 1..Len(store.entries[i].sourceLabels)}

\* the same for the persisted store, as the next load returns it
knownLabels(targetKey) == labelsOf(loadMappingMemory, targetKey)

allDone == \A p \in Procs : procPc[p] = "done"

\* the label of a call is missing from the persisted store
lostUpdate(p) == storedForm(procReq[p].sourceKey) \notin knownLabels(procReq[p].targetKey)

\* C17: concurrent learns of one tenant are not serialized (both can stand
\* between their load and their persist), and every write replaces the whole
\* record with the writer's in-memory copy: each backend holds exactly the
\* store of the call that wrote it last, whatever the other calls had learned.
C17_LastWriterWins ==
  /\ lastWriter.file # 0 => fileDoc = procStore[lastWriter.file]
  /\ lastWriter.firestore # 0 => firestoreDoc = procStore[lastWriter.firestore]
  /\ \A p \in Procs : procPc[p] \in {"persist", "done"} =>
       storedForm(procReq[p].sourceKey) \in labelsOf(procStore[p][1], procReq[p].targetKey)

\* both learns have returned and the persisted store lacks the label one of
\* them learned
C17_Witness ==
  /\ allDone
  /\ \E p \in Procs : lostUpdate(p)

----------------------------------------------------------------------------
(* The mapping-memory stores of several tenants *)

\* tenant ids that pass TENANT_REGEX (2 to 64 letters, digits, _ or -); one is
\* another in capitals
TenantIds == { <<"a", "b">>, <<"A", "B">>, <<"a", "b", "_", "x">> }

\* memoryFileName: `${tenantId}_mapping-memory.json`
FileSuffix ==
  <<"_", "m", "a", "p", "p", "i", "n", "g", "-", "m", "e", "m", "o", "r", "y",
    ".", "j", "s", "o", "n">>

\* a file name that does not depend on the tenant
M_memoryFileNameShared(tenantId) == FileSuffix

memoryFileName(tenantId) == tenantId \o FileSuffix

FileNames == {memoryFileName(t) : t \in TenantIds}

emptyStoreOf(tenantId) == [tenantId |-> tenantId, entries |-> <<>>]

\* loadFromFile(tenantId)
loadFromFileOf(tenantId) ==
  IF files[memoryFileName(tenantId)] = NoDoc
  THEN emptyStoreOf(tenantId)
  ELSE files[memoryFileName(tenantId)][1]

\* loadFromFirestore(tenantId)
loadFromFirestoreOf(tenantId) == IF dbAvailable THEN collection[tenantId] ELSE NoDoc

\* loadMappingMemory(tenantId)
loadMappingMemoryOf(tenantId) ==
  IF loadFromFirestoreOf(tenantId) # NoDoc
  THEN loadFromFirestoreOf(tenantId)[1]
  ELSE loadFromFileOf(tenantId)

\* persistMappingMemory(store): both saves address the store by store.tenantId
persistStore(store) ==
  /\ files' = [files EXCEPT ![memoryFileName(store.tenantId)] = <<store>>]
  /\ collection' = IF dbAvailable
                   THEN [collection EXCEPT ![store.tenantId] = <<store>>]
                   ELSE collection

\* the labels the requests of a tenant carry: its own id and its id followed
\* by a blank and a letter, so that the origin of a stored label can be told
tenantLabels(tenantId) == {tenantId, tenantId \o <<" ", "Z">>}

TenantLearn(t) ==
  \E label \in tenantLabels(t) :
    \E store \in {learnMappings(loadMappingMemoryOf(t),
                                <<[sourceKey |-> label, targetType |-> "field",
                                   targetKey |-> "owners_capital"]>>, <<>>)} :
      /\ WithinBounds(store)
      /\ persistStore(store)
      /\ lastTenant' = <<t>>
      /\ UNCHANGED <<memVars, applyVars, pipeVars, textVars, raceVars, uploadVars, templateVars, dealerVars>>

TenantAddLabel(t) ==
  \E label \in tenantLabels(t) \cup {L_blank} :
    \E store \in {addSourceLabel(loadMappingMemoryOf(t), "owners_capital", "field", label)} :
      /\ WithinBounds(store)
      /\ IF storedForm(label) = <<>>
         THEN UNCHANGED <<files, collection>>
         ELSE persistStore(store)
      /\ lastTenant' = <<t>>
      /\ UNCHANGED <<memVars, applyVars, pipeVars, textVars, raceVars, uploadVars, templateVars, dealerVars>>

TenantRemoveLabel(t) ==
  \E label \in tenantLabels(t) :
    \E store \in {removeSourceLabel(loadMappingMemoryOf(t), "owners_capital", label)} :
      /\ persistStore(store)
      /\ lastTenant' = <<t>>
      /\ UNCHANGED <<memVars, applyVars, pipeVars, textVars, raceVars, uploadVars, templateVars, dealerVars>>

TenantRemoveTarget(t) ==
  \E store \in {removeTargetEntry(loadMappingMemoryOf(t), "owners_capital")} :
    /\ persistStore(store)
    /\ lastTenant' = <<t>>
    /\ UNCHANGED <<memVars, applyVars, pipeVars, textVars, raceVars, uploadVars, templateVars, dealerVars>>

InitTenants ==
  /\ files = [name \in FileNames |-> NoDoc]
  /\ collection = [t \in TenantIds |-> NoDoc]
  /\ lastTenant = None
  /\ dbAvailable \in BOOLEAN
  /\ firestoreDoc = NoDoc
  /\ fileDoc = NoDoc
  /\ hist = None
  /\ applyFields = <<>>
  /\ matches = <<>>
  /\ applyDone = FALSE
  /\ pc = "idle"
  /\ apiKey = FALSE
  /\ nativeText = None
  /\ modelIdx = 1
  /\ rawText = <<>>
  /\ result = None
  /\ tried = <<>>
  /\ calls = <<>>
  /\ dealers = <<>>
  /\ saving = <<>>
  /\ answers = <<>>
  /\ templates = <<>>
  /\ importResult = <<>>
  /\ uploads = <<>>
  /\ jobs = <<>>
  /\ now = 0
  /\ response = [route |-> "none", status |-> 0]
  /\ processing = <<>>
  /\ inputText = <<>>
  /\ callOf = "none"
  /\ output = None
  /\ procPc = <<>>
  /\ procReq = <<>>
  /\ procStore = <<>>
  /\ pending = <<>>
  /\ lastWriter = <<>>

TenantNext ==
  \E t \in TenantIds :
    \/ TenantLearn(t)
    \/ TenantAddLabel(t)
    \/ TenantRemoveLabel(t)
    \/ TenantRemoveTarget(t)

TenantSpec == InitTenants /\ [][TenantNext]_vars

\* every label of every entry of the store
allLabels(store) ==
  UNION { {store.entries[i].sourceLabels[k] : k \in 1..Len(store.entries[i].sourceLabels)} :
            i \in 1..Len(store.entries) }

\* what is persisted for a tenant, in both backends
persistedFor(tenantId) == <<files[memoryFileName(tenantId)], collection[tenantId]>>

\* the labels of a tenant's requests as they are stored
ownLabels == [t \in TenantIds |-> {storedForm(l) : l \in tenantLabels(t)}]

\* a load for the tenant returns its own store, holding only labels that its
\* own requests wrote
loadIsOwn(tenantId) ==
  /\ loadMappingMemoryOf(tenantId).tenantId = tenantId
  /\ allLabels(loadMappingMemoryOf(tenantId)) \subseteq ownLabels[tenantId]

\* C18: learn, add-label, remove-label and remove-target for a tenant leave the
\* persisted store of every other tenant unchanged, and a load for a tenant
\* never returns an entry written for another one.
C18_TenantExclusive ==
  [][ /\ \A b \in TenantIds : <<b>> # lastTenant' => persistedFor(b)' = persistedFor(b)
      /\ \A b \in TenantIds : loadIsOwn(b)' ]_vars

\* two tenants whose ids differ in letter case only both have a store, each
\* with a label of its own
C18_Witness ==
  /\ allLabels(loadMappingMemoryOf(<<"a", "b">>)) # {}
  /\ allLabels(loadMappingMemoryOf(<<"A", "B">>)) # {}
  /\ lastTenant = << <<"A", "B">> >>


----------------------------------------------------------------------------
(* extractFieldsFromText: the generic label / value parser *)

IsLetter(c) == c \in DOMAIN LowerOf \/ c \in {Smalls[i] : i \in 1..Len(Smalls)}

IsWordChar(c) == IsLetter(c) \/ IsDigit(c) \/ c = "_"

\* [A-Za-z0-9_\s\-/().&'",% #@], the characters of a label in extractFromLine
IsLabelChar(c) ==
  \/ IsWordChar(c)
  \/ IsSpace(c)
  \/ c \in {"-", "/", "(", ")", ".", "&", "'", "\"", ",", "%", "#", "@"}

\* [A-Za-z0-9_\-/().,:#'"\s], the characters of a textual value in isLikelyValue
IsValueChar(c) ==
  \/ IsWordChar(c)
  \/ IsSpace(c)
  \/ c \in {"-", "/", "(", ")", ".", ",", ":", "#", "'", "\""}

\* [A-Za-z0-9_\s\-/().&:#'",% ], the characters of a label in isLikelyLabel
IsLooseLabelChar(c) ==
  \/ IsWordChar(c)
  \/ IsSpace(c)
  \/ c \in {"-", "/", "(", ")", ".", "&", ":", "#", "'", "\"", ",", "%"}

allChars(s, Test(_)) == \A i \in 1..Len(s) : Test(s[i])

\* .replace(/[:\-]+$/, "")
RECURSIVE stripTrailingMarks(_)
stripTrailingMarks(s) ==
  IF s # <<>> /\ s[Len(s)] \in {":", "-"}
  THEN stripTrailingMarks(SubSeq(s, 1, Len(s) - 1)) ELSE s

sanitizeLabel(label) == trim(stripTrailingMarks(collapseWhitespace(label)))

sanitizeValue(value) == trim(collapseWhitespace(value))

\* looksLikeAmount: the pattern is not anchored and all of it but one digit is
\* optional, so it is found wherever there is a digit
looksLikeAmount(value) == \E i \in 1..Len(value) : IsDigit(value[i])

\* the whole of s matches [₹$€£¥]?\s?\(?-?\d[\d,]*(?:\.\d+)?\)?\s?%?
isTrailingNumber(s) ==
  LET IsDigitOrComma(c) == IsDigit(c) \/ c = ","
      skip(i, Test(_)) == IF i <= Len(s) /\ Test(s[i]) THEN i + 1 ELSE i
      IsOpen(c)    == c = "("
      IsMinus(c)   == c = "-"
      IsClose(c)   == c = ")"
      IsPercent(c) == c = "%"
      d  == skip(skip(skip(skip(1, IsCurrency), IsSpace), IsOpen), IsMinus)
      e1 == runEnd(s, d + 1, IsDigitOrComma)
      e2 == IF e1 + 1 <= Len(s) /\ s[e1] = "." /\ IsDigit(s[e1 + 1])
            THEN runEnd(s, e1 + 1, IsDigit) ELSE e1
      e3 == skip(skip(skip(e2, IsClose), IsSpace), IsPercent)
  IN /\ d <= Len(s)
     /\ IsDigit(s[d])
     /\ e3 = Len(s) + 1

\* isLikelyValue
isLikelyValue(text) ==
  LET t == trim(text)
  IN /\ t # <<>>
     /\ Len(t) <= 300
     /\ \/ looksLikeAmount(t)
        \/ /\ Len(t) >= 2
           /\ IsLetter(t[1]) \/ IsDigit(t[1]) \/ IsCurrency(t[1])
           /\ allChars(Tail(t), IsValueChar)

\* isLikelyLabel
isLikelyLabel(text) ==
  LET t == trim(text)
      IsDigitOrNonWord(c) == IsDigit(c) \/ ~IsWordChar(c)
  IN /\ Len(t) >= 2
     /\ Len(t) <= 150
     /\ ~allChars(t, IsDigitOrNonWord)
     /\ IsLetter(t[1])
     /\ allChars(Tail(t), IsLooseLabelChar)

candidate(label, value, confidence) ==
  <<[label |-> sanitizeLabel(label), value |-> sanitizeValue(value), confidence |-> confidence]>>

\* ^(label)\s*<sep>\s*(.+)$ with a label of a letter and one or more label
\* characters: the separator is the first character of t outside the label class
separatorMatch(t, seps) ==
  IF allChars(t, IsLabelChar) THEN None
  ELSE LET k == CHOOSE i \in 1..Len(t) : ~IsLabelChar(t[i]) /\ allChars(SubSeq(t, 1, i - 1), IsLabelChar)
       IN IF t[k] \in seps /\ k >= 3 /\ k < Len(t) /\ IsLetter(t[1])
          THEN candidate(SubSeq(t, 1, k - 1), trimStart(SubSeq(t, k + 1, Len(t))),
                         IF ":" \in seps THEN 90 ELSE 78)
          ELSE None

\* the ways to read t as a label of j characters, w white-space characters and
\* a number
numberSplits(t) ==
  {s \in (3..(Len(t) - 2)) \X (1..(Len(t) - 3)) :
     /\ s[1] + s[2] < Len(t)
     /\ IsLetter(t[1])
     /\ allChars(SubSeq(t, 1, s[1] + s[2]), IsLabelChar)
     /\ allChars(SubSeq(t, s[1] + 1, s[1] + s[2]), IsSpace)
     /\ isTrailingNumber(SubSeq(t, s[1] + s[2] + 1, Len(t)))}

\* the split a greedy label and then greedy white space settle on
greedySplit(splits) ==
  CHOOSE s \in splits :
    \A o \in splits : o[1] < s[1] \/ (o[1] = s[1] /\ o[2] <= s[2])

\* ^(label)\s+(number)$ with a greedy label of a letter and two or more label characters
trailingNumberMatch(t) ==
  IF numberSplits(t) = {} THEN None
  ELSE candidate(SubSeq(t, 1, greedySplit(numberSplits(t))[1]),
                 SubSeq(t, greedySplit(numberSplits(t))[1] + greedySplit(numberSplits(t))[2] + 1, Len(t)),
                 82)

\* ^(label)\s{2,}(.+)$ with a lazy label, and isLikelyValue of the rest
wideGapMatch(t) ==
  LET splits == {j \in 2..(Len(t) - 3) :
                   /\ IsLetter(t[1])
                   /\ allChars(SubSeq(t, 1, j), IsLabelChar)
                   /\ IsSpace(t[j + 1]) /\ IsSpace(t[j + 2])}
  IN IF splits = {} THEN None
     ELSE LET j    == CHOOSE a \in splits : \A b \in splits : a <= b
              rest == trimStart(SubSeq(t, j + 1, Len(t)))
          IN IF isLikelyValue(rest) THEN candidate(SubSeq(t, 1, j), rest, 78) ELSE None

\* the first of the matches that is one
firstMatch(tries) ==
  IF \A i \in 1..Len(tries) : tries[i] = None THEN None
  ELSE tries[CHOOSE i \in 1..Len(tries) :
               tries[i] # None /\ \A k \in 1..(i - 1) : tries[k] = None]

\* the four patterns of extractFromLine in their order; confidences in hundredths
patterns(t) ==
  [i \in 1..4 |->
     CASE i = 1 -> separatorMatch(t, {":"})
       [] i = 2 -> trailingNumberMatch(t)
       [] i = 3 -> wideGapMatch(t)
       [] i = 4 -> separatorMatch(t, {"=", "|"})]

\* extractFromLine: the first of the four patterns that matches
extractFromLine(l) == IF Len(trim(l)) < 3 THEN None ELSE firstMatch(patterns(trim(l)))

\* `${label.toLowerCase()}::${value.toLowerCase()}`
dedupeKey(label, value) == toLowerCase(label) \o <<":", ":">> \o toLowerCase(value)

\* a set that never reports a key as seen
M_seenHasNever(seen, key) == FALSE

seenHas(seen, key) == key \in seen

\* extracted.push({ id: `ef_${extracted.length + 1}`, ... }) after seen.add(dedupeKey)
pushField(acc, key, label, value, confidence) ==
  IF seenHas(acc.seen, key) THEN acc
  ELSE [seen |-> acc.seen \cup {key},
        extracted |-> Append(acc.extracted,
                        [id |-> Len(acc.extracted) + 1, label |-> label, value |-> value,
                         confidence |-> confidence])]

\* a field of the key of its label and value
pushKeyed(acc, label, value, confidence) ==
  pushField(acc, dedupeKey(label, value), label, value, confidence)

\* the field of the candidate of a line, if the line has one
pushCandidate(acc, c) ==
  IF c = None THEN acc ELSE pushKeyed(acc, c[1].label, c[1].value, c[1].confidence)

\* the first loop: one candidate per line
RECURSIVE lineLoop(_, _, _)
lineLoop(lines, i, acc) ==
  IF i > Len(lines) THEN acc
  ELSE lineLoop(lines, i + 1, pushCandidate(acc, extractFromLine(lines[i])))

\* the second loop: a label line followed by a value line
RECURSIVE pairLoop(_, _, _)
pairLoop(lines, i, acc) ==
  IF i > Len(lines) - 1 THEN acc
  ELSE pairLoop(lines, i + 1,
         IF \/ ~isLikelyLabel(lines[i])
            \/ ~isLikelyValue(lines[i + 1])
            \/ includes(lines[i + 1], <<":">>)
         THEN acc
         ELSE pushKeyed(acc, sanitizeLabel(lines[i]), sanitizeValue(lines[i + 1]), 72))

digitChar(n) == <<"0", "1", "2", "3", "4", "5", "6", "7", "8", "9">>[n + 1]

\* `Line ${n}`, for the few lines of the texts checked here
lineLabel(n) == <<"L", "i", "n", "e", " ", digitChar(n)>>

\* a placeholder field, of the key "line::" and its lowercased value
pushLine(acc, value) ==
  pushField(acc, <<"l", "i", "n", "e", ":", ":">> \o toLowerCase(value),
            lineLabel(Len(acc.extracted) + 1), value, 35)

\* the third loop, run when nothing was extracted: the lines of 4 or more
\* characters (the first 60 of them) as placeholders
RECURSIVE fallbackLoop(_, _, _)
fallbackLoop(lines, i, acc) ==
  IF i > Len(lines) \/ i > 60 THEN acc
  ELSE fallbackLoop(lines, i + 1, pushLine(acc, sanitizeValue(lines[i])))

\* extractFieldsFromText(text) for a text given as its lines
\* the lines of 4 or more characters
fallbackLines(lines) ==
  LET LongEnough(l) == Len(l) >= 4
  IN filterSeq(lines, LongEnough)

\* the fields of the first two loops, or else of the third
withFallback(lines, structured) ==
  IF structured.extracted = <<>> /\ Len(lines) > 0
  THEN fallbackLoop(fallbackLines(lines), 1, structured).extracted
  ELSE structured.extracted

\* the first two loops over the trimmed, non-empty lines
structuredFields(lines) ==
  pairLoop(lines, 1, lineLoop(lines, 1, [seen |-> {}, extracted |-> <<>>]))

extractLines(lines) == withFallback(lines, structuredFields(lines))

extractFieldsFromText(rawLines) == extractLines(trimmedLines(rawLines))

\* lines that the four patterns and the label / value pairing treat differently
ParserLines ==
  { <<"T", "o", "t", "a", "l", ":", " ", "5">>,
    <<"t", "o", "t", "a", "l", " ", ":", "5">>,
    <<"T", "o", "t", "a", "l", " ", "5">>,
    <<"T", "o", "t", "a", "l", " ", " ", "N", "o", "n", "e">>,
    <<"T", "o", "t", "a", "l", " ", "=", " ", "5">>,
    <<"T", "o", "t", "a", "l">>,
    <<"N", "o", "n", "e">>,
    <<"5">>,
    <<"#", "#", "#", "#">>,
    <<"#", "#", " ", " ", "#", "#">> }

MaxParserLines == 3

ParserTexts == UNION {[1..n -> ParserLines] : n \in 1..MaxParserLines}

isFallbackOutput(fields) ==
  fields # <<>> /\ \A i \in 1..Len(fields) : fields[i].confidence = 35

valuesOf(fields) == [i \in 1..Len(fields) |-> fields[i].value]

\* extractFieldsFromText(text)
ParseCall ==
  /\ callOf = "none"
  /\ callOf' = "extractFieldsFromText"
  /\ output' = extractFieldsFromText(inputText)
  /\ UNCHANGED <<inputText, memVars, applyVars, pipeVars, raceVars, tenantVars, uploadVars, templateVars, dealerVars>>

\* extractFieldsFromText on the text made of the values of the placeholder
\* lines it returned
ReparseFallback ==
  /\ callOf = "extractFieldsFromText"
  /\ isFallbackOutput(output)
  /\ callOf' = "reparse"
  /\ inputText' = valuesOf(output)
  /\ output' = extractFieldsFromText(valuesOf(output))
  /\ UNCHANGED <<memVars, applyVars, pipeVars, raceVars, tenantVars, uploadVars, templateVars, dealerVars>>

InitParser ==
  /\ inputText \in ParserTexts
  /\ callOf = "none"
  /\ output = None
  /\ firestoreDoc = NoDoc
  /\ fileDoc = NoDoc
  /\ dbAvailable = FALSE
  /\ hist = None
  /\ applyFields = <<>>
  /\ matches = <<>>
  /\ applyDone = FALSE
  /\ pc = "idle"
  /\ apiKey = FALSE
  /\ nativeText = None
  /\ modelIdx = 1
  /\ rawText = <<>>
  /\ result = None
  /\ tried = <<>>
  /\ calls = <<>>
  /\ dealers = <<>>
  /\ saving = <<>>
  /\ answers = <<>>
  /\ templates = <<>>
  /\ importResult = <<>>
  /\ uploads = <<>>
  /\ jobs = <<>>
  /\ now = 0
  /\ response = [route |-> "none", status |-> 0]
  /\ processing = <<>>
  /\ files = <<>>
  /\ collection = <<>>
  /\ lastTenant = <<>>
  /\ procPc = <<>>
  /\ procReq = <<>>
  /\ procStore = <<>>
  /\ pending = <<>>
  /\ lastWriter = <<>>

ParserNext == ParseCall \/ ReparseFallback

ParserSpec == InitParser /\ [][ParserNext]_vars

parsed == callOf \in {"extractFieldsFromText", "reparse"}

\* the normalized key of a returned field: its lowercased label, "::", its
\* lowercased value
fieldKey(f) == toLowerCase(f.label) \o <<":", ":">> \o toLowerCase(f.value)

\* C19: extractFieldsFromText never returns two fields with the same normalized
\* label::value key, for any text, the text made of the values of its own
\* placeholder lines included.
C19_NoDuplicateKeys ==
  parsed =>
    \A i, j \in 1..Len(output) : fieldKey(output[i]) = fieldKey(output[j]) => i = j

\* two lines of the parsed text yield candidates that differ (in letter case)
\* and have the same key, and one field of that key was returned
C19_Witness ==
  /\ callOf = "extractFieldsFromText"
  /\ \E i, j \in 1..Len(inputText) :
       \E c \in {extractFromLine(inputText[i])}, d \in {extractFromLine(inputText[j])} :
         /\ i < j
         /\ c # None /\ d # None /\ c # d
         /\ dedupeKey(c[1].label, c[1].value) = dedupeKey(d[1].label, d[1].value)
         /\ \E k \in 1..Len(output) : fieldKey(output[k]) = dedupeKey(c[1].label, c[1].value)

\* the values of placeholder lines were parsed again
C19_ReparseWitness == callOf = "reparse" /\ Len(output) >= 2


----------------------------------------------------------------------------
(* The upload routes: POST /upload/file, POST /upload, PATCH /upload/:id/status,
   POST /upload/:id/process.  A file id `file_${t}` and a job id `job_${t}` are
   the time t they were made at, and the clock reads of one handler fall in one
   millisecond; a path is the sequence of the pieces it is concatenated from;
   an absent outputPath is None. *)

MaxUploads == 2

MaxClock == 1

length(s) ==
  ("" :> 0 @@ " " :> 1 @@ "a" :> 1 @@ "ab" :> 2 @@ "a.pdf" :> 5 @@ "/docs/a.pdf" :> 11 @@ "/out/a.json" :> 11)[s]

isBlank(s) == s \in {"", " "}

\* `ef_${index + 1}`
efId(n) == <<"ef_1", "ef_2", "ef_3">>[n]

\* what the body of POST /upload may carry as extractedFields: nothing, an
\* empty array, or a field without id and confidence and one with both
PayloadFields ==
  LET f1 == [id |-> None, label |-> "Invoice #", value |-> "INV-123", confidence |-> None]
      f2 == [id |-> <<"total">>, label |-> "Total Amount", value |-> "199.90", confidence |-> <<90>>]
  IN {None, <<<<>>>>, <<<<f1, f2>>>>}

\* bodies of POST /upload: the acceptable ones, one without a file name and one
\* with a source path of two characters
Payloads ==
  [fileName : {"a.pdf"}, sourcePath : {"/docs/a.pdf"},
   outputPath : {None, <<"/out/a.json">>}, extractedFields : PayloadFields]
  \cup {[fileName |-> "", sourcePath |-> "/docs/a.pdf", outputPath |-> None, extractedFields |-> None],
        [fileName |-> "a.pdf", sourcePath |-> "ab", outputPath |-> None, extractedFields |-> None]}

\* requests of POST /upload/file: without a file, with a file of a blank name,
\* with a named file (and no outputPath in the body)
FileRequests ==
  {[hasFile |-> FALSE, originalname |-> "", outputPath |-> None],
   [hasFile |-> TRUE, originalname |-> " ", outputPath |-> None],
   [hasFile |-> TRUE, originalname |-> "a.pdf", outputPath |-> None]}

\* ingestByReferenceSchema.safeParse(req.body).success
ingestByReferenceSchema(body) ==
  /\ length(body.fileName) >= 1
  /\ length(body.sourcePath) >= 3
  /\ body.outputPath # None => length(body.outputPath[1]) >= 3

\* what extractFieldsFromPdfBuffer and extractFieldsFromPdfPath may do: throw,
\* or return no field or one
ExtractionOutcomes ==
  {"throws", <<>>, <<[id |-> "ef_1", label |-> "Total", value |-> "5", confidence |-> <<90>>]>>}

\* parsed.data.extractedFields?.map(...) || []
payloadFields(body) ==
  IF body.extractedFields = None THEN <<>>
  ELSE LET given == body.extractedFields[1]
       IN [i \in 1..Len(given) |->
            [id |-> IF given[i].id # None THEN given[i].id[1] ELSE efId(i),
             label |-> given[i].label, value |-> given[i].value,
             confidence |-> given[i].confidence]]

\* an upload that is always stored as mapped
M_uploadStatusMapped(extractedFields) == "mapped"

\* status: extractedFields.length > 0 ? "mapped" : "queued"
uploadStatus(extractedFields) == IF Len(extractedFields) > 0 THEN "mapped" ELSE "queued"

\* status: extractedFields.length > 0 ? "completed" : "queued"
jobStatus(extractedFields) == IF Len(extractedFields) > 0 THEN "completed" ELSE "queued"

\* uploads.push({...}) and jobs.push({...}) of the two creating routes
pushUploadAndJob(fileName, sourcePath, outputPath, extractedFields) ==
  /\ uploads' = Append(uploads,
       [fileId |-> now, fileName |-> fileName, sourcePath |-> sourcePath,
        outputPath |-> outputPath, createdAt |-> now,
        status |-> uploadStatus(extractedFields), extractedFields |-> extractedFields])
  /\ jobs' = Append(jobs,
       [id |-> now, fileId |-> now, status |-> jobStatus(extractedFields),
        createdAt |-> now])

\* uploadRouter.post("/file")
PostUploadFile ==
  /\ Len(uploads) < MaxUploads
  /\ \E req \in FileRequests, outcome \in ExtractionOutcomes :
       IF ~req.hasFile \/ isBlank(req.originalname) \/ outcome = "throws"
       THEN /\ response' = [route |-> "file", status |-> 400]
            /\ UNCHANGED <<uploads, jobs>>
       ELSE /\ pushUploadAndJob(req.originalname, <<"uploaded://", req.originalname>>,
                                req.outputPath, outcome)
            /\ response' = [route |-> "file", status |-> 201]
  /\ UNCHANGED <<now, processing, memVars, applyVars, pipeVars, textVars, raceVars, tenantVars, templateVars, dealerVars>>

\* uploadRouter.post("/")
PostUpload ==
  /\ Len(uploads) < MaxUploads
  /\ \E body \in Payloads, outcome \in ExtractionOutcomes :
       IF ~ingestByReferenceSchema(body)
       THEN /\ response' = [route |-> "upload", status |-> 400]
            /\ UNCHANGED <<uploads, jobs>>
       ELSE LET given == payloadFields(body)
                extractedFields ==
                  IF Len(given) = 0 /\ outcome # "throws" THEN outcome ELSE given
            IN /\ pushUploadAndJob(body.fileName, <<body.sourcePath>>, body.outputPath,
                                   extractedFields)
               /\ response' = [route |-> "upload", status |-> 202]
  /\ UNCHANGED <<now, processing, memVars, applyVars, pipeVars, textVars, raceVars, tenantVars, templateVars, dealerVars>>

\* uploads.findIndex((u) => u.fileId === id), 0 for -1
findIndex(id) ==
  IF \E i \in 1..Len(uploads) : uploads[i].fileId = id
  THEN CHOOSE i \in 1..Len(uploads) :
         /\ uploads[i].fileId = id
         /\ \A k \in 1..(i - 1) : uploads[k].fileId # id
  ELSE 0

\* bodies of PATCH /upload/:id/status: each status, one of them with an
\* outputPath, and a status outside the enumeration
PatchBodies ==
  [status : {"queued", "mapped", "exported", "done"}, outputPath : {None}]
  \cup {[status |-> "exported", outputPath |-> <<"/out/a.json">>]}

\* updateUploadStatusSchema.safeParse(req.body).success
updateUploadStatusSchema(body) == body.status \in {"queued", "mapped", "exported"}

\* the requests in flight that hold the object at uploads[idx] lose it: the
\* array slot is given a new object
detach(idx) ==
  [k \in 1..Len(processing) |->
     IF processing[k].idx = idx THEN [processing[k] EXCEPT !.detached = TRUE]
     ELSE processing[k]]

\* uploadRouter.patch("/:id/status")
PatchStatus ==
  /\ \E id \in 0..MaxClock, body \in PatchBodies :
       IF ~updateUploadStatusSchema(body)
       THEN /\ response' = [route |-> "patch", status |-> 400]
            /\ UNCHANGED <<uploads, processing>>
       ELSE IF findIndex(id) = 0
       THEN /\ response' = [route |-> "patch", status |-> 404]
            /\ UNCHANGED <<uploads, processing>>
       ELSE /\ uploads' = [uploads EXCEPT ![findIndex(id)] =
                 [@ EXCEPT !.status = body.status,
                           !.outputPath = IF body.outputPath # None THEN body.outputPath ELSE @]]
            /\ processing' = detach(findIndex(id))
            /\ response' = [route |-> "patch", status |-> 200]
  /\ UNCHANGED <<jobs, now, memVars, applyVars, pipeVars, textVars, raceVars, tenantVars, templateVars, dealerVars>>

\* jobs.find((j) => j.fileId === fileId), as an index, 0 for undefined
findJob(fileId) ==
  IF \E i \in 1..Len(jobs) : jobs[i].fileId = fileId
  THEN CHOOSE i \in 1..Len(jobs) :
         /\ jobs[i].fileId = fileId
         /\ \A k \in 1..(i - 1) : jobs[k].fileId # fileId
  ELSE 0

MaxInFlight == 1

\* a job that is always completed
M_settleJobCompleted(queue, j, threw) == [queue EXCEPT ![j].status = "completed"]

\* job.status = "failed" in the catch, job.status = "completed" at the end
settleJob(queue, j, threw) ==
  [queue EXCEPT ![j].status = IF threw THEN "failed" ELSE "completed"]

\* upload.extractedFields = ..., upload.status = "mapped", upload.outputPath
\* if absent, on the object the handler holds
settleUpload(upload, extractedFields) ==
  [upload EXCEPT !.extractedFields = extractedFields,
                 !.status = "mapped",
                 !.outputPath = IF @ = None THEN upload.sourcePath \o <<".mapped.json">> ELSE @]

\* uploadRouter.post("/:id/process") up to its await, and to its end when the
\* upload has extracted fields already
ProcessUpload ==
  /\ \E id \in 0..MaxClock :
       IF findIndex(id) = 0
       THEN /\ response' = [route |-> "process", status |-> 404]
            /\ UNCHANGED <<uploads, jobs, processing>>
       ELSE LET idx     == findIndex(id)
                upload  == uploads[idx]
                created == findJob(upload.fileId) = 0
                queue   == IF created
                           THEN Append(jobs, [id |-> now, fileId |-> upload.fileId,
                                              status |-> "queued", createdAt |-> now])
                           ELSE jobs
                j       == IF created THEN Len(queue) ELSE findJob(upload.fileId)
            IN IF Len(upload.extractedFields) = 0
               THEN /\ Len(processing) < MaxInFlight
                    /\ processing' = Append(processing, [idx |-> idx, job |-> j, detached |-> FALSE])
                    /\ jobs' = queue
                    /\ UNCHANGED <<uploads, response>>
               ELSE /\ uploads' = [uploads EXCEPT ![idx] = settleUpload(upload, upload.extractedFields)]
                    /\ jobs' = settleJob(queue, j, FALSE)
                    /\ response' = [route |-> "process", status |-> 200]
                    /\ UNCHANGED processing
  /\ UNCHANGED <<now, memVars, applyVars, pipeVars, textVars, raceVars, tenantVars, templateVars, dealerVars>>

removeAt(seq, k) == SubSeq(seq, 1, k - 1) \o SubSeq(seq, k + 1, Len(seq))

\* uploadRouter.post("/:id/process") from the end of its await: the extraction
\* threw or returned, and the handler writes to the upload object it found
\* before the await, which is the stored one unless PATCH replaced it since
ProcessResume ==
  /\ \E k \in 1..Len(processing), outcome \in ExtractionOutcomes :
       /\ processing' = removeAt(processing, k)
       /\ IF outcome = "throws"
          THEN /\ jobs' = settleJob(jobs, processing[k].job, TRUE)
               /\ response' = [route |-> "process", status |-> 400]
               /\ UNCHANGED uploads
          ELSE /\ uploads' = IF processing[k].detached THEN uploads
                             ELSE [uploads EXCEPT ![processing[k].idx] = settleUpload(@, outcome)]
               /\ jobs' = settleJob(jobs, processing[k].job, FALSE)
               /\ response' = [route |-> "process", status |-> 200]
  /\ UNCHANGED <<now, memVars, applyVars, pipeVars, textVars, raceVars, tenantVars, templateVars, dealerVars>>

\* a millisecond passes between two requests
Tick ==
  /\ now < MaxClock
  /\ now' = now + 1
  /\ UNCHANGED <<uploads, jobs, response, processing, memVars, applyVars, pipeVars, textVars,
                 raceVars, tenantVars, templateVars, dealerVars>>

InitUploads ==
  /\ uploads = <<>>
  /\ jobs = <<>>
  /\ now = 0
  /\ response = [route |-> "none", status |-> 0]
  /\ processing = <<>>
  /\ firestoreDoc = NoDoc
  /\ fileDoc = NoDoc
  /\ dbAvailable = FALSE
  /\ hist = None
  /\ applyFields = <<>>
  /\ matches = <<>>
  /\ applyDone = FALSE
  /\ pc = "idle"
  /\ apiKey = FALSE
  /\ nativeText = None
  /\ modelIdx = 1
  /\ rawText = <<>>
  /\ result = None
  /\ tried = <<>>
  /\ inputText = <<>>
  /\ callOf = "none"
  /\ output = None
  /\ files = <<>>
  /\ collection = <<>>
  /\ lastTenant = <<>>
  /\ procPc = <<>>
  /\ procReq = <<>>
  /\ procStore = <<>>
  /\ pending = <<>>
  /\ lastWriter = <<>>
  /\ calls = <<>>
  /\ dealers = <<>>
  /\ saving = <<>>
  /\ answers = <<>>
  /\ templates = <<>>
  /\ importResult = <<>>

UploadNext == PostUploadFile \/ PostUpload \/ PatchStatus \/ ProcessUpload \/ ProcessResume \/ Tick

UploadSpec == InitUploads /\ [][UploadNext]_vars

\* the step stored a new upload
uploadCreated == Len(uploads') = Len(uploads) + 1

\* C20: every upload created by POST /upload or POST /upload/file is stored as
\* 'mapped' exactly when it has at least one extracted field and as 'queued'
\* otherwise, and the job created with it is 'completed' exactly when the
\* upload is 'mapped' and 'queued' otherwise.
C20_CreatedStatuses ==
  [][uploadCreated =>
       /\ Len(jobs') = Len(jobs) + 1
       /\ \E u \in {uploads'[Len(uploads')]}, j \in {jobs'[Len(jobs')]} :
            /\ j.fileId = u.fileId
            /\ u.status = (IF Len(u.extractedFields) > 0 THEN "mapped" ELSE "queued")
            /\ j.status = (IF u.status = "mapped" THEN "completed" ELSE "queued")]_vars

\* both routes have created uploads: one with a field, stored as mapped with a
\* completed job, and one with none, stored as queued with a queued job
C20_Witness ==
  /\ Len(uploads) = 2
  /\ Len(jobs) = 2
  /\ response.status \in {201, 202}
  /\ \E i, k \in 1..2 :
       /\ uploads[i].sourcePath[1] = "uploaded://"
       /\ uploads[k].sourcePath[1] # "uploaded://"
       /\ Len(uploads[i].extractedFields) > 0
       /\ uploads[i].status = "mapped" /\ jobs[i].status = "completed"
       /\ Len(uploads[k].extractedFields) = 0
       /\ uploads[k].status = "queued" /\ jobs[k].status = "queued"


----------------------------------------------------------------------------
(* The outcomes of POST /upload/:id/process *)

\* the step ends the await of the in-flight request k
resumes(k) == k \in 1..Len(processing) /\ processing' = removeAt(processing, k)

\* the step is a process request on an upload that has fields, handled in one go
processedAtOnce ==
  /\ response'.route = "process"
  /\ response'.status = 200
  /\ processing' = processing
  /\ now' = now
  /\ <<uploads, jobs, response>>' # <<uploads, jobs, response>>

\* extraction threw: the job is failed, the stored upload keeps its status and fields
threwOutcome(i, j) ==
  /\ response'.status = 400
  /\ jobs'[j].status = "failed"
  /\ uploads'[i].status = uploads[i].status
  /\ uploads'[i].extractedFields = uploads[i].extractedFields

\* the stored upload is mapped and has an outputPath, the job is completed
mappedOutcome(i, j) ==
  /\ response'.status = 200
  /\ uploads'[i].status = "mapped"
  /\ uploads'[i].outputPath # None
  /\ jobs'[j].status = "completed"

C21_UndisturbedOutcomes ==
  [][/\ \A k \in 1..Len(processing) :
          resumes(k) /\ ~processing[k].detached =>
            /\ threwOutcome(processing[k].idx, processing[k].job)
               \/ mappedOutcome(processing[k].idx, processing[k].job)
     /\ \A k \in 1..Len(processing) :
          resumes(k) => jobs'[processing[k].job].status \in {"failed", "completed"}
     /\ processedAtOnce =>
          \E i \in 1..Len(uploads) : mappedOutcome(i, findJob(uploads[i].fileId))]_vars

\* a process request returned 200 and the stored upload has no field and is not mapped
C21_LostWrite ==
  /\ response = [route |-> "process", status |-> 200]
  /\ \E i \in 1..Len(uploads) :
       /\ uploads[i].status # "mapped"
       /\ uploads[i].extractedFields = <<>>
       /\ findJob(uploads[i].fileId) # 0
       /\ jobs[findJob(uploads[i].fileId)].status = "completed"
       /\ \A k \in 1..Len(uploads) : k # i => uploads[k].fileId # uploads[i].fileId


----------------------------------------------------------------------------
(* The templates of a tenant: template-repository.ts and routes/templates.ts.
   A template id `tpl_${t}` is <<"tpl", t>>, `tpl_${t}_${r}` is <<"tpl", t, r>>
   and an id given in an import is <<id>>; a name is the sequence of the
   pieces it is concatenated from; an optional property is None when absent. *)

MaxTemplates == 2

MaxCopies == 1

MaxRandom == 1

DetectionRules ==
  {[filenamePattern |-> None, textContains |-> None],
   [filenamePattern |-> <<"">>, textContains |-> None],
   [filenamePattern |-> <<"inv">>, textContains |-> <<"Total">>]}

TemplateMappings == <<[sourceField |-> "Total", outputField |-> "total", transform |-> None]>>

\* bodies of POST /templates: a name of one character and one of two, each rule
CreateBodies ==
  [name : {"a", "ab"}, detectionRule : DetectionRules, mappings : {TemplateMappings}]

\* templateSchema.safeParse(req.body).success
templateSchema(body) == length(body.name) >= 2

\* (rule.filenamePattern || "") and (rule.textContains || "")
ruleKey(rule) ==
  <<IF rule.filenamePattern = None THEN "" ELSE rule.filenamePattern[1],
    IF rule.textContains = None THEN "" ELSE rule.textContains[1]>>

\* findDuplicateDetectionRule: the index of the first template of the rule, 0 for null
findDuplicateDetectionRule(detectionRule) ==
  IF \E i \in 1..Len(templates) : ruleKey(templates[i].detectionRule) = ruleKey(detectionRule)
  THEN CHOOSE i \in 1..Len(templates) :
         /\ ruleKey(templates[i].detectionRule) = ruleKey(detectionRule)
         /\ \A k \in 1..(i - 1) : ruleKey(templates[k].detectionRule) # ruleKey(detectionRule)
  ELSE 0

\* createTemplate: the record pushed
createTemplate(input) ==
  Append(templates,
    [id |-> <<"tpl", now>>, active |-> TRUE, createdAt |-> now, name |-> input.name,
     detectionRule |-> input.detectionRule, mappings |-> input.mappings])

\* templateRouter.post("/")
PostTemplate ==
  /\ Len(templates) < MaxTemplates
  /\ \E body \in CreateBodies :
       IF ~templateSchema(body)
       THEN /\ response' = [route |-> "templates", status |-> 400]
            /\ UNCHANGED templates
       ELSE IF findDuplicateDetectionRule(body.detectionRule) # 0
       THEN /\ response' = [route |-> "templates", status |-> 409]
            /\ UNCHANGED templates
       ELSE /\ templates' = createTemplate([body EXCEPT !.name = <<body.name>>])
            /\ response' = [route |-> "templates", status |-> 201]
  /\ importResult' = None
  /\ UNCHANGED <<uploads, jobs, now, processing, memVars, applyVars, pipeVars, textVars,
                 raceVars, tenantVars, dealerVars>>

\* the ids a request may name: those of the store and one of no template
TemplateIds == {templates[i].id : i \in 1..Len(templates)} \cup {<<"none">>}

\* getTemplateById, and the findIndex of deactivateTemplate: the index of the
\* first template of the id, 0 for none
getTemplateById(templateId) ==
  IF \E i \in 1..Len(templates) : templates[i].id = templateId
  THEN CHOOSE i \in 1..Len(templates) :
         /\ templates[i].id = templateId
         /\ \A k \in 1..(i - 1) : templates[k].id # templateId
  ELSE 0

\* templateRouter.post("/:id/clone")
CloneTemplate ==
  /\ Len(templates) < MaxTemplates
  /\ \E id \in TemplateIds :
       IF getTemplateById(id) = 0
       THEN /\ response' = [route |-> "clone", status |-> 404]
            /\ UNCHANGED templates
       ELSE /\ Len(templates[getTemplateById(id)].name) <= MaxCopies
            /\ templates' = createTemplate(
                 [name |-> templates[getTemplateById(id)].name \o <<" (copy)">>,
                  detectionRule |-> templates[getTemplateById(id)].detectionRule,
                  mappings |-> templates[getTemplateById(id)].mappings])
            /\ response' = [route |-> "clone", status |-> 201]
  /\ importResult' = None
  /\ UNCHANGED <<uploads, jobs, now, processing, memVars, applyVars, pipeVars, textVars,
                 raceVars, tenantVars, dealerVars>>

\* templateRouter.patch("/:id/deactivate") with deactivateTemplate
DeactivateTemplate ==
  /\ \E id \in TemplateIds :
       IF getTemplateById(id) = 0
       THEN /\ response' = [route |-> "deactivate", status |-> 404]
            /\ UNCHANGED templates
       ELSE /\ templates' = [templates EXCEPT ![getTemplateById(id)].active = FALSE]
            /\ response' = [route |-> "deactivate", status |-> 200]
  /\ importResult' = None
  /\ UNCHANGED <<uploads, jobs, now, processing, memVars, applyVars, pipeVars, textVars,
                 raceVars, tenantVars, dealerVars>>

\* exportTemplateBundle(tenantId).templates as the JSON text carries them and the
\* import schema reads them: every property of a template is present
exportedTemplates ==
  [i \in 1..Len(templates) |->
     [id |-> <<templates[i].id>>, name |-> templates[i].name,
      active |-> <<templates[i].active>>, createdAt |-> <<templates[i].createdAt>>,
      detectionRule |-> <<templates[i].detectionRule>>,
      mappings |-> <<templates[i].mappings>>]]

\* templates a client may write itself: one with an id and a name only, one
\* without id, one that repeats the id of the first, one with an empty name
CraftedTemplates ==
  LET bare   == [id |-> <<<<"a">>>>, name |-> <<"ab">>, active |-> None, createdAt |-> None,
                 detectionRule |-> None, mappings |-> None]
      full   == [id |-> None, name |-> <<"cd">>, active |-> <<FALSE>>, createdAt |-> <<0>>,
                 detectionRule |-> <<[filenamePattern |-> <<"inv">>, textContains |-> <<"Total">>]>>,
                 mappings |-> <<TemplateMappings>>]
      again  == [full EXCEPT !.id = <<<<"a">>>>]
      noName == [bare EXCEPT !.name = <<"">>]
  IN {<<>>, <<bare>>, <<full>>, <<bare, again>>, <<noName>>}

\* templateImportSchema.safeParse(payload).success
templateImportSchema(payload) ==
  /\ payload.mode \in {None, <<"replace">>, <<"merge">>}
  /\ \A i \in 1..Len(payload.templates) : payload.templates[i].name # <<"">>

\* normalizeTemplate, r the number drawn by Math.random
normalizeTemplate(t, r) ==
  [id |-> IF t.id = None \/ t.id = <<<<"">>>> THEN <<"tpl", now, r>> ELSE t.id[1],
   name |-> IF t.name = <<"">> THEN <<"Imported Template">> ELSE t.name,
   active |-> IF t.active = None THEN TRUE ELSE t.active[1],
   createdAt |-> IF t.createdAt = None THEN now ELSE t.createdAt[1],
   detectionRule |-> IF t.detectionRule = None
                     THEN [filenamePattern |-> None, textContains |-> None]
                     ELSE t.detectionRule[1],
   mappings |-> IF t.mappings = None THEN <<>> ELSE t.mappings[1]]

\* new Map(current.map((t) => [t.id, t])) and byId.set(item.id, item), as the
\* list of its values in insertion order
RECURSIVE mapSetAll(_, _)
mapSetAll(values, items) ==
  IF items = <<>> THEN values
  ELSE LET item == Head(items)
           hit  == {i \in 1..Len(values) : values[i].id = item.id}
       IN mapSetAll(IF hit = {} THEN Append(values, item)
                    ELSE [values EXCEPT ![CHOOSE i \in hit : TRUE] = item],
                    Tail(items))

\* importTemplateBundle: the list stored
importTemplateBundle(normalized, mode) ==
  IF mode = "replace" THEN normalized ELSE mapSetAll(mapSetAll(<<>>, templates), normalized)

\* templateRouter.post("/import"), the body either written by the client or
\* the bundle GET /templates/export returns at this moment
ImportTemplates ==
  /\ \E list \in CraftedTemplates \cup {exportedTemplates},
        mode \in {None, <<"replace">>, <<"merge">>, <<"append">>},
        shape \in {"templates", "bundle", "none"},
        r \in 0..MaxRandom :
       LET payload    == [mode |-> mode, templates |-> IF shape = "none" THEN <<>> ELSE list]
           normalized == [i \in 1..Len(payload.templates) |->
                            normalizeTemplate(payload.templates[i], r)]
           stored     == importTemplateBundle(normalized, IF mode = None THEN "replace" ELSE mode[1])
       IN IF ~templateImportSchema(payload)
          THEN /\ response' = [route |-> "import", status |-> 400]
               /\ importResult' = None
               /\ UNCHANGED templates
          ELSE /\ Len(stored) <= MaxTemplates
               /\ templates' = stored
               /\ response' = [route |-> "import", status |-> 200]
               /\ importResult' =
                    <<[imported |-> Len(normalized),
                       mode |-> IF mode = None THEN "replace" ELSE mode[1],
                       exported |-> shape # "none" /\ list = exportedTemplates]>>
  /\ UNCHANGED <<uploads, jobs, now, processing, memVars, applyVars, pipeVars, textVars,
                 raceVars, tenantVars, dealerVars>>

InitTemplates ==
  /\ templates = <<>>
  /\ importResult = None
  /\ uploads = <<>>
  /\ jobs = <<>>
  /\ now = 0
  /\ response = [route |-> "none", status |-> 0]
  /\ processing = <<>>
  /\ firestoreDoc = NoDoc
  /\ fileDoc = NoDoc
  /\ dbAvailable = FALSE
  /\ hist = None
  /\ applyFields = <<>>
  /\ matches = <<>>
  /\ applyDone = FALSE
  /\ pc = "idle"
  /\ apiKey = FALSE
  /\ nativeText = None
  /\ modelIdx = 1
  /\ rawText = <<>>
  /\ result = None
  /\ tried = <<>>
  /\ inputText = <<>>
  /\ callOf = "none"
  /\ output = None
  /\ files = <<>>
  /\ collection = <<>>
  /\ lastTenant = <<>>
  /\ procPc = <<>>
  /\ procReq = <<>>
  /\ procStore = <<>>
  /\ pending = <<>>
  /\ lastWriter = <<>>
  /\ calls = <<>>
  /\ dealers = <<>>
  /\ saving = <<>>
  /\ answers = <<>>

TemplateNext == PostTemplate \/ CloneTemplate \/ DeactivateTemplate \/ ImportTemplates \/ Tick

TemplateSpec == InitTemplates /\ [][TemplateNext]_vars

\* what the claim compares of a template: id, name, active flag, detection rule, mappings
compared(list) ==
  [i \in 1..Len(list) |->
     [id |-> list[i].id, name |-> list[i].name, active |-> list[i].active,
      detectionRule |-> list[i].detectionRule, mappings |-> list[i].mappings]]

\* the step imported the bundle that export returned for the store of the step
roundTrip(mode) ==
  /\ importResult' # None
  /\ importResult'[1].exported
  /\ importResult'[1].mode = mode
  /\ response'.route = "import"
  /\ now' = now

\* C22 (replace half): importing in replace mode the bundle that GET
\* /templates/export returned yields the exported template list.
C22_ReplaceRoundTrip ==
  [][roundTrip("replace") => compared(templates') = compared(templates)]_vars

\* C22: importing the exported bundle in replace mode yields the exported
\* template list, and importing it in merge mode into the unchanged store
\* leaves the list unchanged and answers 'imported' = the number of templates
\* of the bundle.
C22_ExportImportRoundTrip ==
  [][/\ roundTrip("replace") => compared(templates') = compared(templates)
     /\ roundTrip("merge") =>
          /\ compared(templates') = compared(templates)
          /\ importResult'[1].imported = Len(templates)]_vars

\* the same for a store whose templates have distinct ids
C22_RoundTripOfDistinctIds ==
  [][(\A i, k \in 1..Len(templates) : templates[i].id = templates[k].id => i = k) =>
       /\ roundTrip("replace") => compared(templates') = compared(templates)
       /\ roundTrip("merge") =>
            /\ compared(templates') = compared(templates)
            /\ importResult'[1].imported = Len(templates)]_vars

\* a merge import of the exported bundle stored fewer templates than it imported
C22_MergeShrank ==
  /\ importResult # None
  /\ importResult[1].exported
  /\ importResult[1].mode = "merge"
  /\ Len(templates) < importResult[1].imported

\* C30: no two templates of the tenant have the same detection rule (absent
\* treated as empty), after any sequence of create, clone, import and
\* deactivate; a create with a rule that is present answers 409 and leaves the
\* list unchanged.
C30_UniqueDetectionRules ==
  \A i, k \in 1..Len(templates) :
    ruleKey(templates[i].detectionRule) = ruleKey(templates[k].detectionRule) => i = k

\* the half of C30 about create: a create answered 409 leaves the list unchanged
C30_RejectedCreateChangesNothing ==
  [][response' = [route |-> "templates", status |-> 409] => templates' = templates]_vars


----------------------------------------------------------------------------
(* Native text that the scan / quality classifier rejects *)

\* the lengths of the distinct lines of a text, summed
RECURSIVE sumOfChars(_)
sumOfChars(lines) ==
  IF lines = {} THEN 0
  ELSE LET l == CHOOSE x \in lines : TRUE
       IN l.chars + sumOfChars(lines \ {l})

\* isWatermarkOnly on a text given as its (non-empty) lines: no line at all, or
\* at most 3 distinct lines on at least 3 lines with an average distinct length
\* under 40
isWatermarkOnlyText(text) ==
  LET unique == {text[i] : i \in 1..Len(text)}
  IN \/ text = <<>>
     \/ /\ Cardinality(unique) <= 3
        /\ Len(text) >= 3
        /\ sumOfChars(unique) < 40 * Cardinality(unique)

\* the "scanned" test of extractFieldsFromPdfBuffer and extractFieldsFromPdfPath
\* on a text given as its lines
classifierRejects(text) ==
  text = <<>> \/ textLength(text) < 20 \/ isWatermarkOnlyText(text)

\* the text pdf-parse found in the document
native == IF nativeText = None THEN <<>> ELSE nativeText[1]

\* extractFinancialFields returned fields it took from the native text: OCR was
\* never run and the fields come from the Gemini call on the text or from
\* synonymMatch
fieldsFromNativeText ==
  /\ pc = "returned"
  /\ result # None
  /\ result[1].note.strategy \in {"text", "synonym"}
  /\ result[1].note.count > 0
  /\ \A k \in 1..Len(tried) : tried[k] # "ocr"

\* C23: native text the classifier rejects (empty, under 20 characters or
\* watermark-only) is never the source of the fields extractFinancialFields
\* returns
C23_RejectedNativeTextUnused == classifierRejects(native) => ~fieldsFromNativeText

\* C23, the part the code keeps: native text under 20 characters is never the
\* source of returned fields
C23_ShortNativeTextUnused ==
  (native = <<>> \/ textLength(native) < 20) => ~fieldsFromNativeText

\* a watermark-only text of 50 characters or more was matched by synonymMatch
C23_WatermarkMatched ==
  /\ isWatermarkOnlyText(native)
  /\ native # <<>>
  /\ fieldsFromNativeText
  /\ result[1].note.strategy = "synonym"
  /\ ~apiKey


----------------------------------------------------------------------------
(* synonymMatch: the line each canonical key takes its value from *)

\* the line entries synonymMatch builds of the text it was called with
entriesOf(rawLines) ==
  LET lines == trimmedLines(rawLines)
  IN lineEntries([i \in 1..Len(lines) |-> lineRecord(lines[i])])

\* the entry whose number the loop over OUTPUT_FIELDS assigns to the key: the
\* first one that contains an alias of the key, 0 if there is none
sourceEntry(rawLines, key) == firstHit(entriesOf(rawLines), key)

C24_FirstMatchingEntryPerKey ==
  callOf = "synonymMatch" =>
    /\ DOMAIN output[1] = {key \in DOMAIN SYNONYM_MAP : sourceEntry(inputText, key) # 0}
    /\ \A key \in DOMAIN output[1] :
         output[1][key] = entriesOf(inputText)[sourceEntry(inputText, key)].amount[1]

\* one line with one amount gave its number to two canonical fields
C24_OneLineTwoFields ==
  /\ callOf = "synonymMatch"
  /\ Len(entriesOf(inputText)) = 1
  /\ Cardinality(DOMAIN output[1]) = 2


----------------------------------------------------------------------------
(* Auto-apply: the entry chosen for each extracted field *)

\* the proposals whose source is the i-th field of the request
proposalsOf(i) == {k \in 1..Len(matches) : matches[k].sourceKey = applyFields[i].id}

\* the scores of the i-th field of the request against the entries of the store
scoresOf(i) ==
  [j \in 1..Len(loadMappingMemory.entries) |->
     matchScore(applyFields[i].label, loadMappingMemory.entries[j])]

\* the entry is the best of the scored ones: no entry scores higher, and none of
\* the same score has been used more often
bestScored(score, entries, w) ==
  /\ score[w] >= ScoreMin
  /\ \A j \in 1..Len(entries) :
       \/ score[j] < score[w]
       \/ (score[j] = score[w] /\ entries[j].usageCount <= entries[w].usageCount)

\* C25: for each extracted field, auto-apply keeps the single entry with the
\* highest match score among the entries scoring >= 0.5, ties broken by the
\* largest usageCount: at most one proposal comes from a field, and its target
\* is that entry
C25_BestEntryPerField ==
  applyDone =>
    \A i \in 1..Len(applyFields) :
      /\ Cardinality(proposalsOf(i)) <= 1
      /\ \A k \in proposalsOf(i) :
           \E w \in {findEntry(loadMappingMemory.entries, matches[k].targetKey)} :
             /\ w # 0
             /\ matches[k].confidence = scoresOf(i)[w]
             /\ bestScored(scoresOf(i), loadMappingMemory.entries, w)

\* a field scored the same against two entries, and the later entry, used more
\* often, became its proposal
C25_Witness ==
  /\ applyDone
  /\ Len(applyFields) = 1
  /\ Len(loadMappingMemory.entries) = 2
  /\ scoresOf(1)[1] = scoresOf(1)[2]
  /\ scoresOf(1)[1] >= ScoreMin
  /\ loadMappingMemory.entries[1].usageCount < loadMappingMemory.entries[2].usageCount
  /\ Len(matches) = 1
  /\ matches[1].targetKey = loadMappingMemory.entries[2].targetKey


----------------------------------------------------------------------------
(* Auto-apply: the confidence tiers *)

ScoreOverlapMax == 480    \* 0.8

\* the confidence is one matchScore can give the normalized label against the
\* known labels: 1.0 with an equal label, 0.85 with a label that contains it or
\* is contained in it, or 0.5 + 0.3 * sim with a label of word overlap sim >= 0.6
inTier(confidence, normalizedField, sourceLabels) ==
  \/ /\ confidence = ScoreExact
     /\ \E n \in 1..Len(sourceLabels) : sourceLabels[n] = normalizedField
  \/ /\ confidence = ScoreContain
     /\ \E n \in 1..Len(sourceLabels) :
          \/ includes(normalizedField, sourceLabels[n])
          \/ includes(sourceLabels[n], normalizedField)
  \/ /\ confidence \in ScoreMin..ScoreOverlapMax
     /\ \E n \in 1..Len(sourceLabels) :
          \E sim \in {wordSimilarity(normalizedField, sourceLabels[n])} :
            /\ 5 * sim[1] >= 3 * sim[2]
            /\ confidence * sim[2] = ScoreMin * sim[2] + 180 * sim[1]

\* C26: the confidence of every proposal is 1.0 (exact match), 0.85 (containment
\* in either direction) or a word-overlap score, accepted only with an overlap of
\* at least 0.60 and then within 0.5..0.8; a field that scores under 0.5 against
\* every entry and an entry that scores under 0.5 against every field appear in
\* no proposal
C26_ConfidenceTiers ==
  applyDone =>
    /\ \A k \in 1..Len(matches) :
         \E i \in 1..Len(applyFields) :
           \E w \in {findEntry(loadMappingMemory.entries, matches[k].targetKey)} :
             /\ matches[k].sourceKey = applyFields[i].id
             /\ w # 0
             /\ inTier(matches[k].confidence, normalize(applyFields[i].label),
                       loadMappingMemory.entries[w].sourceLabels)
    /\ \A i \in 1..Len(applyFields) :
         (\A j \in 1..Len(loadMappingMemory.entries) : scoresOf(i)[j] < ScoreMin) =>
           proposalsOf(i) = {}
    /\ \A j \in 1..Len(loadMappingMemory.entries) :
         (\A i \in 1..Len(applyFields) : scoresOf(i)[j] < ScoreMin) =>
           proposalsFor(loadMappingMemory.entries[j].targetKey) = {}

\* one request brought a proposal of each tier or left a field without one: here
\* a word-overlap proposal next to a field that matched nothing
C26_Witness ==
  /\ applyDone
  /\ Len(applyFields) = 2
  /\ Len(matches) = 1
  /\ matches[1].confidence \in ScoreMin..ScoreOverlapMax
  /\ \E i \in 1..2 : \A j \in 1..Len(loadMappingMemory.entries) : scoresOf(i)[j] < ScoreMin


----------------------------------------------------------------------------
(* Learning a label and applying the memory to a field of that label *)

\* auto-apply requests of one field labelled as the learn requests label theirs
LearnedFieldLists == { <<[id |-> Id_f1, label |-> l]>> : l \in LabelPool }

\* POST /mapping-memory/auto-apply on the store the learn requests left
AutoApplyLearned ==
  /\ ~applyDone
  /\ \E extractedFields \in LearnedFieldLists :
       /\ applyFields' = extractedFields
       /\ matches' = autoApplyFromMemory(loadMappingMemory, extractedFields)
  /\ applyDone' = TRUE
  /\ UNCHANGED <<memVars, pipeVars, textVars, raceVars, tenantVars, uploadVars, templateVars, dealerVars>>

\* the learn requests of the round trip come before its auto-apply
LearnFirst == ~applyDone /\ Learn

RoundTripNext == LearnFirst \/ AutoApplyLearned

RoundTripSpec == Init /\ [][RoundTripNext]_vars

\* the last request was a learn of one row (hist[1].label -> hist[1].targetKey)
\* and the store it found was empty: the store holds nothing but what it learned
learnedIntoEmpty ==
  /\ hist # None
  /\ hist[1].op = "learn"
  /\ hist[1].label # <<>>
  /\ hist[1].before1.usageCount = 0
  /\ \/ loadMappingMemory.entries = <<>>
     \/ /\ Len(loadMappingMemory.entries) = 1
        /\ loadMappingMemory.entries[1].targetKey = hist[1].targetKey
        /\ loadMappingMemory.entries[1].usageCount = 1

\* the auto-apply answered for a field of the given label with a proposal of
\* the given target at confidence 1.0
proposedExactly(label, targetKey) ==
  \A i \in 1..Len(applyFields') :
    applyFields'[i].label = label =>
      \E k \in 1..Len(matches') :
        /\ matches'[k].targetKey = targetKey
        /\ matches'[k].confidence = ScoreExact

\* C27: for every non-empty label L and target T, after learning (L -> T) into
\* an empty store, auto-apply on a field labelled L proposes T with confidence
\* exactly 1.0; a label of white space only is taken for an empty one here
C27_LearnedLabelProposed ==
  [][ ( /\ ~applyDone /\ applyDone' /\ learnedIntoEmpty
        /\ storedForm(hist[1].label) # <<>> ) =>
        proposedExactly(hist[1].label, hist[1].targetKey) ]_vars

\* C27 for the labels the store keeps as the matcher normalizes them: not
\* blank, and without a run of white space inside
C27_CollapsedLabelProposed ==
  [][ ( /\ ~applyDone /\ applyDone' /\ learnedIntoEmpty
        /\ storedForm(hist[1].label) # <<>>
        /\ storedForm(hist[1].label) = normalize(hist[1].label) ) =>
        proposedExactly(hist[1].label, hist[1].targetKey) ]_vars

\* the label learned into the empty store came back at a confidence under 1.0
C27_LearnedLabelScoredLower ==
  /\ applyDone
  /\ learnedIntoEmpty
  /\ applyFields[1].label = hist[1].label
  /\ Len(matches) = 1
  /\ matches[1].targetKey = hist[1].targetKey
  /\ matches[1].confidence < ScoreExact

\* a blank label learned into the empty store came back with no proposal
C27_BlankLabelUnlearned ==
  /\ applyDone
  /\ learnedIntoEmpty
  /\ applyFields[1].label = hist[1].label
  /\ matches = <<>>

\* a label learned into the empty store came back at confidence 1.0
C27_LearnedLabelExact ==
  /\ applyDone
  /\ learnedIntoEmpty
  /\ applyFields[1].label = hist[1].label
  /\ Len(matches) = 1
  /\ matches[1].confidence = ScoreExact


----------------------------------------------------------------------------
(* The two backends of the mapping memory when Firestore calls can fail *)

MaxCalls == 3      \* write calls in one run

\* loadMappingMemory when the Firestore read succeeds (getOk) or throws and is
\* caught: a document read from Firestore wins, the file is the fallback
loadWith(getOk) ==
  IF getOk /\ loadFromFirestore # NoDoc THEN loadFromFirestore[1] ELSE loadFromFile

\* persistMappingMemory: both writes are started together; a failed Firestore
\* write is swallowed by saveToFirestore, a failed file write rejects the call
persistWith(store, setOk, fileOk) ==
  /\ firestoreDoc' = IF dbAvailable /\ setOk THEN <<store>> ELSE firestoreDoc
  /\ fileDoc' = IF fileOk THEN <<store>> ELSE fileDoc

\* the rows and labels of the write calls
BackendRows ==
  { [sourceKey |-> L_ab,  targetType |-> "field", targetKey |-> "owners_capital"],
    [sourceKey |-> L_bad, targetType |-> "field", targetKey |-> "pbit"] }

BackendLabels == {L_ab, L_bad, L_blank}

\* the observer: the number of write calls so far and, when the last of them
\* persisted a store and returned it, that store
called(store, persisted) ==
  hist' = <<[calls |-> hist[1].calls + 1,
             returned |-> IF persisted THEN <<store>> ELSE None]>>

\* what a write call leaves alone
BackendUnchanged ==
  UNCHANGED <<dbAvailable, applyVars, pipeVars, textVars, raceVars, tenantVars, uploadVars, templateVars, dealerVars>>

LearnCall ==
  \E row \in BackendRows, getOk \in BOOLEAN, setOk \in BOOLEAN, fileOk \in BOOLEAN :
    \E store \in {learnMappings(loadWith(getOk), <<row>>, <<[id |-> Id_f1, label |-> L_Ab]>>)} :
      /\ hist[1].calls < MaxCalls
      /\ persistWith(store, setOk, fileOk)
      /\ called(store, fileOk)
      /\ BackendUnchanged

\* addSourceLabel returns the loaded store, unwritten, for a blank label
AddLabelCall ==
  \E targetKey \in Targets, sourceLabel \in BackendLabels :
    \E getOk \in BOOLEAN, setOk \in BOOLEAN, fileOk \in BOOLEAN :
      \E store \in {addSourceLabel(loadWith(getOk), targetKey, "field", sourceLabel)} :
        /\ hist[1].calls < MaxCalls
        /\ IF storedForm(sourceLabel) = <<>>
           THEN /\ UNCHANGED <<firestoreDoc, fileDoc>>
                /\ called(store, FALSE)
           ELSE /\ persistWith(store, setOk, fileOk)
                /\ called(store, fileOk)
        /\ BackendUnchanged

RemoveLabelCall ==
  \E targetKey \in Targets, sourceLabel \in BackendLabels :
    \E getOk \in BOOLEAN, setOk \in BOOLEAN, fileOk \in BOOLEAN :
      \E store \in {removeSourceLabel(loadWith(getOk), targetKey, sourceLabel)} :
        /\ hist[1].calls < MaxCalls
        /\ persistWith(store, setOk, fileOk)
        /\ called(store, fileOk)
        /\ BackendUnchanged

RemoveTargetCall ==
  \E targetKey \in Targets, getOk \in BOOLEAN, setOk \in BOOLEAN, fileOk \in BOOLEAN :
    \E store \in {removeTargetEntry(loadWith(getOk), targetKey)} :
      /\ hist[1].calls < MaxCalls
      /\ persistWith(store, setOk, fileOk)
      /\ called(store, fileOk)
      /\ BackendUnchanged

InitBackend ==
  /\ firestoreDoc = NoDoc
  /\ fileDoc = NoDoc
  /\ dbAvailable \in BOOLEAN
  /\ hist = <<[calls |-> 0, returned |-> None]>>
  /\ applyFields = <<>>
  /\ matches = <<>>
  /\ applyDone = FALSE
  /\ pc = "idle"
  /\ apiKey = FALSE
  /\ nativeText = None
  /\ modelIdx = 1
  /\ rawText = <<>>
  /\ result = None
  /\ tried = <<>>
  /\ calls = <<>>
  /\ dealers = <<>>
  /\ saving = <<>>
  /\ answers = <<>>
  /\ templates = <<>>
  /\ importResult = <<>>
  /\ uploads = <<>>
  /\ jobs = <<>>
  /\ now = 0
  /\ response = [route |-> "none", status |-> 0]
  /\ processing = <<>>
  /\ files = <<>>
  /\ collection = <<>>
  /\ lastTenant = <<>>
  /\ procPc = <<>>
  /\ procReq = <<>>
  /\ procStore = <<>>
  /\ pending = <<>>
  /\ lastWriter = <<>>
  /\ inputText = <<>>
  /\ callOf = "none"
  /\ output = None

BackendNext == LearnCall \/ AddLabelCall \/ RemoveLabelCall \/ RemoveTargetCall

BackendSpec == InitBackend /\ [][BackendNext]_vars

\* C28: after a learn, add-label, remove-label or remove-target call has
\* returned, a loadMappingMemory with no write in between returns exactly the
\* entries that call persisted, whether its Firestore read succeeds or not
C28_ReadYourWrites ==
  hist[1].returned # None =>
    \A getOk \in BOOLEAN : loadWith(getOk).entries = hist[1].returned[1].entries

\* the file always holds what the last returned call persisted, and so does
\* every load of a process without a Firestore handle
C28_FileHoldsLastWrite ==
  hist[1].returned # None =>
    /\ loadFromFile.entries = hist[1].returned[1].entries
    /\ ~dbAvailable => \A getOk \in BOOLEAN : loadWith(getOk) = hist[1].returned[1]

\* a call returned a store while Firestore kept an older document, which the
\* next load returns
C28_StaleFirestoreRead ==
  /\ hist[1].returned # None
  /\ dbAvailable
  /\ firestoreDoc # NoDoc
  /\ firestoreDoc[1].entries # hist[1].returned[1].entries
  /\ loadWith(TRUE) = firestoreDoc[1]


----------------------------------------------------------------------------
(* POST /dealers/save *)

MaxSaves == 3      \* save requests in one run

DealerKeys == {<<"D001", "2024-25">>, <<"D002", "2024-25">>}

Uids == {"u1", "u2"}

\* request bodies: a dealer code and a financial year (or none) and the ten
\* numeric fields, all present or not
SaveBodies ==
  [key : DealerKeys, complete : BOOLEAN]
  \cup {[key |-> <<"", "2024-25">>, complete |-> TRUE]}

\* !dealerCode || !financialYear, then the test for missing fields
saveBodyValid(body) == body.key[1] # "" /\ body.key[2] # "" /\ body.complete

\* docRef.get(): the snapshot of the record, absent (exists = false) or present
docGet(key) == IF key \in DOMAIN dealers THEN dealers[key] ELSE None

\* the DealerRecord the handler builds from the snapshot it read
buildRecord(existing, uid) ==
  [createdAt |-> IF existing # None THEN existing[1].createdAt ELSE now,
   updatedAt |-> now,
   createdBy |-> IF existing # None THEN existing[1].createdBy ELSE uid,
   updatedBy |-> uid]

\* docRef.set(record): the whole document
docSet(key, record) ==
  IF key \in DOMAIN dealers
  THEN [dealers EXCEPT ![key] = <<record>>]
  ELSE dealers @@ (key :> <<record>>)

started == Len(saving) + Len(answers)

\* the request up to `await docRef.get()`: 400 and 503 are answered at once,
\* otherwise the snapshot is read and the handler waits for it
SaveGet ==
  /\ started < MaxSaves
  /\ \E body \in SaveBodies, uid \in Uids :
       IF ~saveBodyValid(body)
       THEN /\ answers' = Append(answers, [key |-> body.key, uid |-> uid, status |-> 400])
            /\ UNCHANGED saving
       ELSE IF ~dbAvailable
       THEN /\ answers' = Append(answers, [key |-> body.key, uid |-> uid, status |-> 503])
            /\ UNCHANGED saving
       ELSE /\ saving' = Append(saving, [key |-> body.key, uid |-> uid, existing |-> docGet(body.key)])
            /\ UNCHANGED answers
  /\ UNCHANGED <<dealers, now, dbAvailable, firestoreDoc, fileDoc, hist, uploads, jobs, response, processing,
                 applyVars, pipeVars, textVars, raceVars, tenantVars, templateVars>>

\* the rest of the handler: the record is built from the snapshot, set, logged
\* and answered with 201 or 200; a rejected audit write leaves it unanswered (0)
SaveSet ==
  \E i \in 1..Len(saving), auditOk \in BOOLEAN :
    /\ dealers' = docSet(saving[i].key, buildRecord(saving[i].existing, saving[i].uid))
    /\ saving' = removeAt(saving, i)
    /\ answers' = Append(answers,
         [key |-> saving[i].key, uid |-> saving[i].uid,
          status |-> IF ~auditOk THEN 0 ELSE IF saving[i].existing # None THEN 200 ELSE 201])
    /\ UNCHANGED <<now, dbAvailable, firestoreDoc, fileDoc, hist, uploads, jobs, response, processing,
                   applyVars, pipeVars, textVars, raceVars, tenantVars, templateVars>>

InitDealers ==
  /\ dealers = <<>>
  /\ saving = <<>>
  /\ answers = <<>>
  /\ now = 0
  /\ dbAvailable \in BOOLEAN
  /\ firestoreDoc = NoDoc
  /\ fileDoc = NoDoc
  /\ hist = None
  /\ applyFields = <<>>
  /\ matches = <<>>
  /\ applyDone = FALSE
  /\ pc = "idle"
  /\ apiKey = FALSE
  /\ nativeText = None
  /\ modelIdx = 1
  /\ rawText = <<>>
  /\ result = None
  /\ tried = <<>>
  /\ calls = <<>>
  /\ templates = <<>>
  /\ importResult = <<>>
  /\ uploads = <<>>
  /\ jobs = <<>>
  /\ response = [route |-> "none", status |-> 0]
  /\ processing = <<>>
  /\ files = <<>>
  /\ collection = <<>>
  /\ lastTenant = <<>>
  /\ procPc = <<>>
  /\ procReq = <<>>
  /\ procStore = <<>>
  /\ pending = <<>>
  /\ lastWriter = <<>>
  /\ inputText = <<>>
  /\ callOf = "none"
  /\ output = None

DealerNext == SaveGet \/ SaveSet \/ Tick

DealerSpec == InitDealers /\ [][DealerNext]_vars

\* the answers 201 given for a key
creators(log, key) == {n \in 1..Len(log) : log[n].key = key /\ log[n].status = 201}

\* a stored record keeps its createdAt and createdBy in this step
creationKept ==
  \A key \in DOMAIN dealers :
    /\ key \in DOMAIN dealers'
    /\ dealers'[key][1].createdAt = dealers[key][1].createdAt
    /\ dealers'[key][1].createdBy = dealers[key][1].createdBy

\* C29: for each (dealerCode, financialYear) the createdAt and createdBy of the
\* stored record are fixed by the first successful save and never change, under
\* any interleaving of save requests; only the creating request answers 201
C29_CreationFixed ==
  [][ /\ creationKept
      /\ \A key \in DealerKeys : Cardinality(creators(answers', key)) <= 1 ]_vars

\* what the handler keeps: a save that finds the record as its snapshot showed
\* it leaves createdAt and createdBy as they are and answers 200
C29_FreshSnapshotKeepsCreation ==
  [][ \A i \in 1..Len(saving) :
        ( /\ saving[i].existing # None
          /\ saving[i].existing = docGet(saving[i].key)
          /\ saving' = removeAt(saving, i) ) =>
          /\ creationKept
          /\ answers'[Len(answers')].status \in {200, 0} ]_vars

\* two saves of one key were both answered 201, and the record names the later
\* one as its creator
C29_TwoCreators ==
  \E key \in DOMAIN dealers :
    /\ Cardinality(creators(answers, key)) = 2
    /\ \E n \in creators(answers, key) : \E m \in creators(answers, key) :
         n < m /\ answers[n].uid # answers[m].uid /\ dealers[key][1].createdBy = answers[m].uid

====
